---- MODULE Spec2Model ----
(***************************************************************************)
(* A model of the WhatsApp Business API handler (src/WhatsApp.ts):         *)
(* the webhook extractor, the conversation state manager, the in-memory    *)
(* message storage, the outbound message queue with its delivery loop and  *)
(* the universal webhook dispatcher of EnhancedWhatsAppHandler.            *)
(*                                                                         *)
(* Conventions.  A JavaScript value that is absent (undefined) or the      *)
(* empty string is written "": the code only ever tests such values for    *)
(* truthiness.  An event type "category:type" is kept as the record        *)
(* [category, type] that data.eventType.split(':') yields.                 *)
(***************************************************************************)
EXTENDS Integers, Sequences, FiniteSets, TLC

VARIABLES
  \* ---- the provider composing a webhook envelope, and its extraction
  envelope,          \* WebhookMessage.entry: a sequence of entries (sequences of change values)
  extractOut,        \* the array returned by WebhookExtractor.extractMessageData
  xpc,               \* "building" | "extracted"
  \* ---- EnhancedWhatsAppHandler: configuration and registered handlers
  cfg,               \* this.webhookConfig
  handlers,          \* the keys set in this.webhookHandlers
  \* ---- ConversationStateManager, MemoryMessageStorage, statistics
  states,            \* ConversationStateManager.states: conversation id -> ConversationState
  messages,          \* MemoryMessageStorage.messages: id -> StoredMessage
  conversationIndex, \* MemoryMessageStorage.conversationIndex: conversation id -> ids
  messageStatistics, \* this.messageStatistics
  emitted,           \* the events emitted to the listeners (EventEmitter), in order
  now,               \* Date.now()
  \* ---- one processWebhook call
  pc,                \* "idle" | "processing" | "aggregated" | "terminal"
  callRequest,       \* the UniversalRequest of the call
  extractedData,     \* handleWebhookEvents: extractedData
  idx,               \* the position of the for loop in extractedData
  processedEvents,   \* handleWebhookEvents: processedEvents
  errors,            \* handleWebhookEvents: errors
  calls,             \* the user handler invocations made during this call
  outcomes,          \* per event the loop has handled: "processed" | "error"
  result,            \* the WebhookResult the call resolves to
  \* ---- history
  inbound,           \* conversation id -> inbound message events that reached the loop
  eventsSeen,        \* sub-events handed to the handler so far
  atEntry,           \* the stored data as the running processWebhook call found it
  \* ---- MessageQueue and the delivery loop of startQueueProcessor
  queue,             \* MessageQueue.queue
  maxSize,           \* MessageQueue.maxSize
  maxRetries,        \* this.maxRetries
  isQueueProcessing, \* this.isQueueProcessing
  item,              \* processQueue: the dequeued item whose request is in flight
  lastEnqueue,       \* what the last call of enqueue by a caller returned
  enqueued,          \* the number of enqueue calls made by callers
  attemptsMade,      \* item id -> delivery attempts made for it
  delivered,         \* item id -> delivery attempts that succeeded
  webhookServer,     \* this.webhookServer: TRUE while a server is held, FALSE for null
  stopped,           \* the last stopWebhookServer that resolved, until a server is started
  \* ---- one sendMessage / sendVoice call
  sendpc,            \* "idle" | "pending" (stored, request in flight)
  storedMessage,     \* sendMessage: storedMessage
  sends,             \* the sends that resolved: [id, to, outcome]
  \* ---- a single call of one of the program's functions
  probe,             \* the arguments of the call
  verdict,           \* what the call returned, once it has
  \* ---- processWebhook calls running side by side on one handler
  requests,          \* the calls made, each with its events and where it is suspended
  applied,           \* conversation id -> the state updates the calls have made to it
  \* ---- RateLimiter of WhatsAppHandler and the callers of waitForSlot
  limiter,           \* [requests, maxRequests]; a request is held by its age, now - time
  callers,           \* caller -> where its waitForSlot call is, and its timer
  grants,            \* the ages of the slots granted less than windowMs ago
  \* ---- WhatsAppHandler (webhook support): handleWebhook and the webhook task queue
  appSecret,         \* this.appSecret
  webhookHandlers,   \* the keys set in this.webhookHandlers
  webhookQueue,      \* this.webhookQueue
  isProcessingQueue, \* this.isProcessingQueue
  loops,             \* the processWebhookQueue activations suspended at an await
  hooks,             \* the handleWebhook calls made, each with where it is
  started            \* the queued tasks that were started, in the order they were

extractVars == <<envelope, extractOut, xpc>>

cfgVars == <<cfg, handlers>>

dataVars == <<states, messages, conversationIndex, messageStatistics, emitted, now>>

callVars == <<pc, callRequest, extractedData, idx, processedEvents, errors, calls, outcomes, result>>

histVars == <<inbound, eventsSeen, atEntry>>

webhookVars == <<cfgVars, dataVars, callVars, histVars>>

queueVars ==
  <<queue, maxSize, maxRetries, isQueueProcessing, item, lastEnqueue, enqueued,
    attemptsMade, delivered, webhookServer, stopped>>

sendVars == <<sendpc, storedMessage, sends>>

probeVars == <<probe, verdict>>

concurrentVars == <<requests, applied>>

limiterVars == <<limiter, callers, grants>>

taskVars ==
  <<appSecret, webhookHandlers, webhookQueue, isProcessingQueue, loops, hooks, started>>

vars ==
  <<extractVars, webhookVars, queueVars, sendVars, probeVars, concurrentVars, limiterVars, taskVars>>

-----------------------------------------------------------------------------
(* Bounds *)

\* the total number of sub-events (messages, statuses, errors) of one envelope
MaxEnvEvents == 3
\* the number of entries of an envelope, and of changes of an entry
MaxEntries == 2

-----------------------------------------------------------------------------
(* Small helpers *)

NoValue == ""

Truthy(s) == s # NoValue

Or(a, b) == IF Truthy(a) THEN a ELSE b

RECURSIVE SumSeq(_)
SumSeq(s) == IF Len(s) = 0 THEN 0 ELSE Head(s) + SumSeq(Tail(s))

RECURSIVE Flatten(_)
Flatten(ss) == IF Len(ss) = 0 THEN <<>> ELSE Head(ss) \o Flatten(Tail(ss))

-----------------------------------------------------------------------------
(* The webhook envelope (interface WebhookMessage) *)

MessageIds == {"wamid.A", "wamid.B"}

ContentFieldsVoiceFirst ==
  <<"text", "image", "video", "voice", "audio", "document", "sticker",
    "location", "contacts", "interactive", "reaction">>

\* the content fields determineMessageEventType looks at, in its order
ContentFields ==
  <<"text", "image", "video", "audio", "voice", "document", "sticker",
    "location", "contacts", "interactive", "reaction">>

\* messages a provider may put into value.messages
EnvMessages ==
  { [id |-> "wamid.A", from |-> "555", fields |-> {"text"}],
    [id |-> "wamid.A", from |-> NoValue, fields |-> {"image", "text"}],
    [id |-> "wamid.B", from |-> "555", fields |-> {}] }

\* statuses a provider may put into value.statuses
EnvStatuses ==
  { [id |-> "wamid.A", status |-> "delivered", recipient_id |-> "555"] }

\* errors a provider may put into value.errors
EnvErrors == [code : {"131000"}]

\* value.contacts: absent, or one contact
EnvContacts == {<<>>, <<[wa_id |-> "777", profile_name |-> "Ann"]>>}

EmptyValue(contacts) ==
  [contacts |-> contacts, messages |-> <<>>, statuses |-> <<>>, errors |-> <<>>]

ValueEvents(value) ==
  Len(value.messages) + Len(value.statuses) + Len(value.errors)

EnvelopeEvents(env) ==
  SumSeq([e \in 1..Len(env) |->
            SumSeq([c \in 1..Len(env[e]) |-> ValueEvents(env[e][c])])])

-----------------------------------------------------------------------------
(* WebhookExtractor *)

RECURSIVE FirstPresent(_, _)
FirstPresent(fields, i) ==
  IF i > Len(ContentFields) THEN "unknown"
  ELSE IF ContentFields[i] \in fields THEN ContentFields[i]
  ELSE FirstPresent(fields, i + 1)

determineMessageEventType(message) ==
  LET f == FirstPresent(message.fields, 1)
  IN  [category |-> "message", type |-> IF f = "contacts" THEN "contact" ELSE f]

\* the keys of the content object: which parts of the message were copied
extractMessageContent(message) ==
  LET f == message.fields
      media == f \cap {"image", "video", "audio", "document", "sticker", "voice"}
  IN  (IF "text" \in f THEN {"text"} ELSE {})
        \cup (IF media # {} THEN {"media"} ELSE {})
        \cup (f \cap {"location", "contacts", "interactive", "reaction"})

MessageEvent(value, waId, displayName, message) ==
  [eventType      |-> determineMessageEventType(message),
   messageId      |-> message.id,
   waId           |-> waId,
   displayName    |-> displayName,
   content        |-> extractMessageContent(message),
   conversationId |-> Or(message.from, waId),
   status         |-> NoValue,
   error          |-> NoValue]

StatusEvent(value, waId, displayName, status) ==
  [eventType      |-> [category |-> "status", type |-> status.status],
   messageId      |-> status.id,
   waId           |-> waId,
   displayName    |-> displayName,
   content        |-> {},
   conversationId |-> Or(status.recipient_id, waId),
   status         |-> status.status,
   error          |-> NoValue]

ErrorEvent(value, waId, displayName, error) ==
  [eventType      |-> [category |-> "system", type |-> "webhook_error"],
   messageId      |-> NoValue,
   waId           |-> waId,
   displayName    |-> displayName,
   content        |-> {},
   conversationId |-> waId,
   status         |-> NoValue,
   error          |-> error.code]

\* the three loops over one change value: messages, then statuses, then errors
ChangeEventsStatusesFirst(value) ==
  LET contact == IF Len(value.contacts) > 0 THEN value.contacts[1]
                 ELSE [wa_id |-> "unknown", profile_name |-> "unknown"]
      waId == contact.wa_id
      displayName == contact.profile_name
  IN  [i \in 1..Len(value.statuses) |-> StatusEvent(value, waId, displayName, value.statuses[i])]
      \o [i \in 1..Len(value.messages) |-> MessageEvent(value, waId, displayName, value.messages[i])]
      \o [i \in 1..Len(value.errors) |-> ErrorEvent(value, waId, displayName, value.errors[i])]

ChangeEvents(value) ==
  LET contact == IF Len(value.contacts) > 0 THEN value.contacts[1]
                 ELSE [wa_id |-> "unknown", profile_name |-> "unknown"]
      waId == contact.wa_id
      displayName == contact.profile_name
  IN  [i \in 1..Len(value.messages) |-> MessageEvent(value, waId, displayName, value.messages[i])]
      \o [i \in 1..Len(value.statuses) |-> StatusEvent(value, waId, displayName, value.statuses[i])]
      \o [i \in 1..Len(value.errors) |-> ErrorEvent(value, waId, displayName, value.errors[i])]

extractMessageData(webhookMessage) ==
  Flatten([e \in 1..Len(webhookMessage) |->
             Flatten([c \in 1..Len(webhookMessage[e]) |->
                        ChangeEvents(webhookMessage[e][c])])])

-----------------------------------------------------------------------------
(* EnhancedWhatsAppHandler.constructor: this.webhookConfig *)

DefaultVerifyToken == "default_verify_token"

\* config: [webhookVerifyToken, appSecret] as the caller gave them (NoValue where
\* the caller gave none), and the flags verifySignature and autoMarkRead, each
\* "on", "off" or "unset"
WebhookConfigOf(config) ==
  [verifyToken     |-> Or(config.webhookVerifyToken, DefaultVerifyToken),
   appSecret       |-> Or(config.appSecret, NoValue),
   verifySignature |-> config.verifySignature # "off",
   autoMarkRead    |-> config.autoMarkRead # "off"]

HandlerNames ==
  {"onMessage", "onMessageStatus", "onError", "onUnknown", "onReaction",
   "onMedia", "onLocation", "onContact", "onInteractive", "onVoice"}

-----------------------------------------------------------------------------
(* ConversationStateManager *)

NoStates == [id \in {} |-> NoValue]

\* an empty Record<string, any>
EmptyRecord == [key \in {} |-> NoValue]

DefaultState(conversationId, t) ==
  [id           |-> conversationId,
   state        |-> "active",
   lastActivity |-> t,
   messageCount |-> 0,
   displayName  |-> NoValue,
   metadata     |-> EmptyRecord,
   currentStep  |-> NoValue,
   context      |-> EmptyRecord]

\* the merge with the existing state left out
updateStateFromDefaults(st, conversationId, updates, t) ==
  LET merged == updates @@ DefaultState(conversationId, t)
      newState == [f \in DOMAIN merged |->
                     IF f = "lastActivity" THEN t ELSE merged[f]]
  IN  [c \in DOMAIN st \cup {conversationId} |->
         IF c = conversationId THEN newState ELSE st[c]]

\* the merge with the existing state taking precedence over the updates
updateStateFirstWins(st, conversationId, updates, t) ==
  LET existingState == IF conversationId \in DOMAIN st THEN st[conversationId]
                       ELSE [f \in {} |-> NoValue]
      merged == existingState @@ updates @@ DefaultState(conversationId, t)
      newState == [f \in DOMAIN merged |->
                     IF f = "lastActivity" THEN t ELSE merged[f]]
  IN  [c \in DOMAIN st \cup {conversationId} |->
         IF c = conversationId THEN newState ELSE st[c]]

\* { ...defaults, ...existingState, ...updates }, then lastActivity = new Date()
updateState(st, conversationId, updates, t) ==
  LET existingState == IF conversationId \in DOMAIN st THEN st[conversationId]
                       ELSE [f \in {} |-> NoValue]
      merged == updates @@ existingState @@ DefaultState(conversationId, t)
      newState == [f \in DOMAIN merged |->
                     IF f = "lastActivity" THEN t ELSE merged[f]]
  IN  [c \in DOMAIN st \cup {conversationId} |->
         IF c = conversationId THEN newState ELSE st[c]]

MessageCountOf(st, conversationId) ==
  IF conversationId \in DOMAIN st THEN st[conversationId].messageCount ELSE 0

DisplayNameOf(st, conversationId) ==
  IF conversationId \in DOMAIN st THEN st[conversationId].displayName ELSE NoValue

NextMessageCount(st, conversationId) == MessageCountOf(st, conversationId) + 1

\* the update from an event also naming the lifecycle state
updateStateFromMessageReactivates(st, extracted, t) ==
  updateState(st, extracted.conversationId,
              [displayName  |-> Or(extracted.displayName,
                                   DisplayNameOf(st, extracted.conversationId)),
               messageCount |-> NextMessageCount(st, extracted.conversationId),
               state        |-> "active"],
              t)

updateStateFromMessage(st, extracted, t) ==
  updateState(st, extracted.conversationId,
              [displayName  |-> Or(extracted.displayName,
                                   DisplayNameOf(st, extracted.conversationId)),
               messageCount |-> NextMessageCount(st, extracted.conversationId)],
              t)

updateContextReplaces(st, conversationId, context, t) ==
  updateState(st, conversationId, [context |-> context], t)

\* updateContext: context: { ...currentContext, ...context }
updateContext(st, conversationId, context, t) ==
  LET currentContext == IF conversationId \in DOMAIN st THEN st[conversationId].context
                        ELSE EmptyRecord
  IN  updateState(st, conversationId, [context |-> context @@ currentContext], t)

getActiveConversations(st) ==
  {c \in DOMAIN st : st[c].state \in {"active", "waiting"}}

-----------------------------------------------------------------------------
(* MemoryMessageStorage *)

NoMessages == [id \in {} |-> NoValue]

NoIndex == [c \in {} |-> <<>>]

\* this.messages.set(id, messageToStore)
StoreRecord(msgs, message) ==
  [i \in DOMAIN msgs \cup {message.id} |->
     IF i = message.id THEN message ELSE msgs[i]]

\* this.conversationIndex.get(message.conversationId).push(id)
StoreIndex(index, message) ==
  [c \in DOMAIN index \cup {message.conversationId} |->
     IF c = message.conversationId
     THEN Append(IF c \in DOMAIN index THEN index[c] ELSE <<>>, message.id)
     ELSE index[c]]

\* getMessages: .sort((a, b) => b.timestamp - a.timestamp), a stable sort
RECURSIVE InsertByTimestamp(_, _)
InsertByTimestamp(sorted, message) ==
  IF sorted = <<>> THEN <<message>>
  ELSE IF Head(sorted).timestamp >= message.timestamp
       THEN <<Head(sorted)>> \o InsertByTimestamp(Tail(sorted), message)
       ELSE <<message>> \o sorted

RECURSIVE SortByTimestampDesc(_)
SortByTimestampDesc(list) ==
  IF list = <<>> THEN <<>>
  ELSE InsertByTimestamp(SortByTimestampDesc(SubSeq(list, 1, Len(list) - 1)),
                         list[Len(list)])

\* messageIds.slice(offset, offset + limit)
Slice(list, from, to) ==
  SubSeq(list, from + 1, IF to < Len(list) THEN to ELSE Len(list))

getMessages(msgs, index, conversationId, limit, offset) ==
  LET messageIds == IF conversationId \in DOMAIN index THEN index[conversationId]
                    ELSE <<>>
      paginatedIds == Slice(messageIds, offset, offset + limit)
      found == SelectSeq(paginatedIds, LAMBDA id : id \in DOMAIN msgs)
  IN  SortByTimestampDesc([k \in 1..Len(found) |-> msgs[found[k]]])

DefaultLimit == 50

-----------------------------------------------------------------------------
(* MessageQueue *)

DefaultMaxQueueSize == 1000

DefaultMaxRetries == 3

\* enqueue: the test that rejects an item, this.queue.length >= this.maxSize
QueueFullOffByOne(q, size) == Len(q) > size

QueueFull(q, size) == Len(q) >= size

\* enqueue: the queue after the call.  The stored item is
\* {...item, attempts: 0, timestamp: Date.now()}, whatever the item carried
enqueue(q, size, given, t) ==
  LET queueItem == [attempts |-> 0, timestamp |-> t] @@ given
  IN  IF QueueFull(q, size) THEN q
      ELSE IF given.priority > 0 THEN <<queueItem>> \o q
      ELSE Append(q, queueItem)

\* enqueue: the value returned
enqueueReturns(q, size) == ~QueueFull(q, size)

NoItem == [id |-> NoValue]

NoEnqueue == [by |-> NoValue]

NoStop == [resolved |-> FALSE]

\* the queue side of a handler right after its construction; a setting of 0
\* stands for one the config leaves out (and is replaced like one: `||`)
QueueConstructed(config) ==
  /\ queue = <<>>
  /\ maxSize = (IF config.maxQueueSize # 0 THEN config.maxQueueSize
                ELSE DefaultMaxQueueSize)
  /\ maxRetries = (IF config.maxRetries # 0 THEN config.maxRetries
                   ELSE DefaultMaxRetries)
  /\ isQueueProcessing = FALSE
  /\ item = NoItem
  /\ lastEnqueue = NoEnqueue
  /\ enqueued = 0
  /\ attemptsMade = [i \in {} |-> 0]
  /\ delivered = [i \in {} |-> 0]
  /\ webhookServer = FALSE
  /\ stopped = NoStop

DefaultQueueConfig == [maxRetries |-> 0, maxQueueSize |-> 0]

DefaultRateLimit == 80

MaxCallers == 3

NoCaller == [at |-> "idle", timer |-> 0, waited |-> FALSE]

\* new RateLimiter(config.rateLimitPerSecond || 80), windowMs left at its
\* default; no caller has called waitForSlot
\* WhatsAppHandler with webhook support, as constructed and after
\* setWebhookHandlers(given): no task queued, no call made
TasksConstructed(secret, given) ==
  /\ appSecret = secret
  /\ webhookHandlers = given
  /\ webhookQueue = <<>>
  /\ isProcessingQueue = FALSE
  /\ loops = {}
  /\ hooks = <<>>
  /\ started = <<>>

NoHooks == TasksConstructed(NoValue, {})

LimiterConstructed(rateLimitPerSecond) ==
  /\ limiter = [requests |-> <<>>,
                maxRequests |-> IF rateLimitPerSecond # 0 THEN rateLimitPerSecond
                                ELSE DefaultRateLimit]
  /\ callers = [c \in 1..MaxCallers |-> NoCaller]
  /\ grants = <<>>

\* no sendMessage / sendVoice call has been made
NoSends ==
  /\ sendpc = "idle"
  /\ storedMessage = NoItem
  /\ sends = <<>>

-----------------------------------------------------------------------------
(* Requests (interface UniversalRequest) and signatures *)

\* raw body bytes: the JSON text of a value in one of several spellings, or
\* bytes that are no JSON at all
RawOf(value, spelling) == [kind |-> "json", value |-> value, spelling |-> spelling]

NotJson == [kind |-> "garbage"]

\* an absent (undefined) body, raw body or signature header
Absent == [kind |-> "absent"]

\* JSON.stringify always produces the compact spelling
JSONstringify(value) == RawOf(value, "compact")

\* 'sha256=' + HMAC-SHA-256(secret, payload): injective in both arguments
Hmac(secret, payload) == [kind |-> "sha256", secret |-> secret, payload |-> payload]

\* a header value that is no well-formed signature (another length)
Malformed == [kind |-> "malformed"]

\* a parsed body that is a WebhookMessage, and one that is not ({}: no entry)
EnvelopeBody(entry) == [kind |-> "envelope", entry |-> entry]

EmptyObject == [kind |-> "object"]

\* the length of a signature header: 'sha256=' and 64 hex digits, or another
SignatureLength(signature) == IF signature.kind = "sha256" THEN 71 ELSE 12

\* compares signatures of the same length only
timingSafeEqualAnyBytes(a, b) ==
  [threw |-> SignatureLength(a) # SignatureLength(b), returned |-> TRUE]

\* crypto.timingSafeEqual: throws on buffers of different length
timingSafeEqual(a, b) ==
  IF SignatureLength(a) # SignatureLength(b) THEN [threw |-> TRUE, returned |-> FALSE]
  ELSE [threw |-> FALSE, returned |-> a = b]

\* verifySignature: what a call does, return or throw; the try/catch around
\* timingSafeEqual turns its exception into false
verifySignatureCall(webhookConfig, payload, signature) ==
  IF signature = Absent THEN [threw |-> FALSE, returned |-> FALSE]
  ELSE IF ~Truthy(webhookConfig.appSecret) THEN [threw |-> FALSE, returned |-> FALSE]
  ELSE LET compared == timingSafeEqual(signature, Hmac(webhookConfig.appSecret, payload))
       IN  IF compared.threw THEN [threw |-> FALSE, returned |-> FALSE]
           ELSE compared

verifySignature(webhookConfig, payload, signature) ==
  verifySignatureCall(webhookConfig, payload, signature).returned

ValidationErrorsHeadersOptional(request) ==
  (IF ~Truthy(request.method) THEN <<"Missing HTTP method">> ELSE <<>>)
  \o (IF request.method = "POST" /\ request.body = Absent /\ request.rawBody = Absent
      THEN <<"Missing request body for POST request">> ELSE <<>>)

\* validateRequest: the errors array
ValidationErrors(request) ==
  (IF ~Truthy(request.method) THEN <<"Missing HTTP method">> ELSE <<>>)
  \o (IF ~request.hasHeaders THEN <<"Missing headers">> ELSE <<>>)
  \o (IF request.method = "POST" /\ request.body = Absent /\ request.rawBody = Absent
      THEN <<"Missing request body for POST request">> ELSE <<>>)

\* validateRequest(request).valid
validateRequest(request) == Len(ValidationErrors(request)) = 0

\* Array.prototype.join(', ')
RECURSIVE Join(_)
Join(list) ==
  IF list = <<>> THEN NoValue
  ELSE IF Len(list) = 1 THEN list[1]
  ELSE list[1] \o ", " \o Join(Tail(list))

createErrorResultBare(status, code, message) ==
  [success |-> FALSE, status |-> status, code |-> NoValue, message |-> NoValue,
   challenge |-> NoValue,
   events |-> <<>>, totalEvents |-> 0, processedEvents |-> 0, errors |-> 0,
   conversations |-> {}]

createErrorResult(status, code, message) ==
  [success |-> FALSE, status |-> status, code |-> code, message |-> message,
   challenge |-> NoValue,
   events |-> <<>>, totalEvents |-> 0, processedEvents |-> 0, errors |-> 0,
   conversations |-> {}]

VerificationAcceptsAnyToken(webhookConfig, request) ==
  request.mode = "subscribe" /\ Truthy(request.challenge)

VerificationAccepts(webhookConfig, request) ==
  /\ request.mode = "subscribe"
  /\ request.token = webhookConfig.verifyToken
  /\ Truthy(request.challenge)

handleVerification(webhookConfig, request) ==
  IF VerificationAccepts(webhookConfig, request)
  THEN [success |-> TRUE, status |-> 200, code |-> NoValue, message |-> NoValue,
        challenge |-> request.challenge,
        events |-> <<>>, totalEvents |-> 0, processedEvents |-> 0, errors |-> 0,
        conversations |-> {}]
  ELSE createErrorResult(403, "VERIFICATION_FAILED", "Webhook verification failed")

\* the signature check of handleWebhookEvents is made only with a secret
SignatureChecked(webhookConfig) ==
  webhookConfig.verifySignature /\ Truthy(webhookConfig.appSecret)

SignedPayload(request) ==
  IF request.rawBody # Absent THEN request.rawBody ELSE JSONstringify(request.body)

\* request.body || (request.rawBody ? JSON.parse(request.rawBody.toString()) : {})
BodyParses(request) ==
  IF request.body # Absent THEN TRUE
  ELSE IF request.rawBody # Absent THEN request.rawBody.kind = "json"
  ELSE TRUE

ParsedBody(request) ==
  IF request.body # Absent THEN request.body
  ELSE IF request.rawBody # Absent THEN request.rawBody.value
  ELSE EmptyObject

-----------------------------------------------------------------------------
(* callWebhookHandlers: the handler invocations made for one event, in order *)

handlerMapVoiceAsMedia(type) ==
  CASE type = "text" -> "onMessage"
    [] type \in {"image", "video", "audio", "document", "sticker", "voice"} -> "onMedia"
    [] type = "location" -> "onLocation"
    [] type = "contact" -> "onContact"
    [] type = "interactive" -> "onInteractive"
    [] type = "reaction" -> "onReaction"
    [] OTHER -> NoValue

handlerMap(type) ==
  CASE type = "text" -> "onMessage"
    [] type \in {"image", "video", "audio", "document", "sticker"} -> "onMedia"
    [] type = "voice" -> "onVoice"
    [] type = "location" -> "onLocation"
    [] type = "contact" -> "onContact"
    [] type = "interactive" -> "onInteractive"
    [] type = "reaction" -> "onReaction"
    [] OTHER -> NoValue

Invocation(handler, argument) == [handler |-> handler, argument |-> argument]

MessageInvocations(registered, data) ==
  (IF "onMessage" \in registered
   THEN <<Invocation("onMessage", "raw")>> ELSE <<>>)
  \o (IF handlerMap(data.eventType.type) \in registered
      THEN <<Invocation(handlerMap(data.eventType.type), "content")>> ELSE <<>>)

PlannedInvocations(registered, data) ==
  CASE data.eventType.category = "message" -> MessageInvocations(registered, data)
    [] data.eventType.category = "status" ->
         IF "onMessageStatus" \in registered
         THEN <<Invocation("onMessageStatus", "status")>> ELSE <<>>
    [] data.eventType.category = "system" ->
         IF data.eventType.type = "webhook_error" /\ "onError" \in registered
         THEN <<Invocation("onError", "error")>> ELSE <<>>
    [] OTHER -> <<>>

-----------------------------------------------------------------------------
(* EnhancedWhatsAppHandler.processWebhook *)

\* the sub-events handed to the handler over a whole run
MaxTotalEvents == 3

Secret == "app-secret"

Token == "my-verify-token"

NoResult ==
  [success |-> FALSE, status |-> 0, code |-> NoValue, message |-> NoValue,
   challenge |-> NoValue,
   events |-> <<>>, totalEvents |-> 0, processedEvents |-> 0, errors |-> 0,
   conversations |-> {}]

NoRequest ==
  [method |-> NoValue, hasHeaders |-> FALSE, signature |-> Absent, body |-> Absent,
   rawBody |-> Absent, mode |-> NoValue, token |-> NoValue, challenge |-> NoValue]

NoStatistics == [sent |-> 0, received |-> 0, failed |-> 0, delivered |-> 0, read |-> 0]

NoVerdict == [pending |-> TRUE]

\* no single function call is being looked at
NoProbe ==
  /\ probe = NoVerdict
  /\ verdict = NoVerdict

\* no conversation has been updated by a call
NoApplied == [c \in {} |-> NoValue]

NoSnapshot == [taken |-> FALSE]

\* what the handler holds on behalf of its user: conversation states, stored
\* messages and the statistics counters
Snapshot ==
  [taken |-> TRUE, states |-> states, messages |-> messages,
   conversationIndex |-> conversationIndex, messageStatistics |-> messageStatistics]

\* the state of a handler right after its construction with `config`
Constructed(config) ==
  /\ cfg = WebhookConfigOf(config)
  /\ handlers = {}
  /\ states = NoStates
  /\ messages = NoMessages
  /\ conversationIndex = NoIndex
  /\ messageStatistics = NoStatistics
  /\ emitted = <<>>
  /\ now = 0
  /\ pc = "idle"
  /\ callRequest = NoRequest
  /\ extractedData = <<>>
  /\ idx = 1
  /\ processedEvents = <<>>
  /\ errors = <<>>
  /\ calls = <<>>
  /\ outcomes = <<>>
  /\ result = NoResult
  /\ inbound = [c \in {} |-> 0]
  /\ eventsSeen = 0
  /\ atEntry = NoSnapshot
  /\ requests = <<>>
  /\ applied = NoApplied

DefaultConfig ==
  [webhookVerifyToken |-> NoValue, appSecret |-> NoValue,
   verifySignature |-> "unset", autoMarkRead |-> "unset"]

\* what processWebhook returns before any event is looked at, or NoResult
\* when the request goes on to the per-event loop
EarlyResult(webhookConfig, request) ==
  IF ~validateRequest(request)
  THEN createErrorResult(400, "VALIDATION_ERROR", Join(ValidationErrors(request)))
  ELSE IF request.method = "GET" THEN handleVerification(webhookConfig, request)
  ELSE IF request.method # "POST"
       THEN createErrorResult(405, "METHOD_NOT_ALLOWED",
                              "Method " \o request.method \o " not allowed")
  ELSE IF SignatureChecked(webhookConfig)
          /\ ~verifySignature(webhookConfig, SignedPayload(request), request.signature)
       THEN createErrorResult(401, "INVALID_SIGNATURE",
                              "Webhook signature verification failed")
  ELSE IF ~BodyParses(request)
       THEN createErrorResult(400, "INVALID_JSON", "Invalid JSON in request body")
  ELSE IF ParsedBody(request).kind # "envelope"
       \* extractMessageData throws a TypeError on a body without an entry list;
       \* the catch of processWebhook turns it into a 500
       THEN createErrorResult(500, "PROCESSING_ERROR",
                              "webhookMessage.entry is not iterable")
  ELSE NoResult

ProcessWebhook(request) ==
  /\ pc = "idle"
  /\ callRequest' = request
  /\ atEntry' = Snapshot
  /\ LET early == EarlyResult(cfg, request)
     IN  IF early # NoResult
         THEN /\ result' = early
              /\ pc' = "terminal"
              /\ UNCHANGED <<extractedData, idx, eventsSeen>>
         ELSE LET data == extractMessageData(ParsedBody(request).entry)
              IN  /\ eventsSeen + Len(data) <= MaxTotalEvents
                  /\ extractedData' = data
                  /\ idx' = 1
                  /\ pc' = "processing"
                  /\ eventsSeen' = eventsSeen + Len(data)
                  /\ UNCHANGED result
  /\ UNCHANGED <<cfgVars, dataVars, processedEvents, errors, calls, outcomes, inbound,
                 extractVars, probeVars, concurrentVars, limiterVars, taskVars, queueVars, sendVars>>

\* the message record handleWebhookEvents stores for an inbound message
IncomingRecord(data) ==
  [id             |-> Or(data.messageId, "in_generated"),
   whatsappId     |-> data.messageId,
   conversationId |-> data.conversationId,
   direction      |-> "incoming",
   type           |-> data.eventType.type,
   timestamp      |-> now,
   status         |-> "delivered",
   error          |-> NoValue]

MarksRead(webhookConfig, data) ==
  /\ webhookConfig.autoMarkRead
  /\ Truthy(data.messageId)
  /\ data.eventType.category = "message"

\* the loop starting over from the first event after an error
AfterEventStartsOver(i, ok, n) == IF ok THEN i + 1 ELSE 1

\* where the for loop goes on after an event: to the next event, whether or
\* not the event was caught as an error
AfterEventAbortOnError(i, ok, n) == IF ok THEN i + 1 ELSE n + 1

AfterEvent(i, ok, n) == i + 1

Bump(counts, key) ==
  [k \in DOMAIN counts \cup {key} |->
     IF k = key THEN (IF k \in DOMAIN counts THEN counts[k] ELSE 0) + 1
     ELSE counts[k]]

\* a failed mark-read request caught as the event's error
EventOkNeedsRead(storeOk, readOk, failAt) == storeOk /\ readOk /\ failAt = 0

\* whether the body of the try block runs to processedEvents.push: the
\* storage write resolves and no handler throws; the rejection of markAsRead
\* ends in its own .catch
EventOk(storeOk, readOk, failAt) == storeOk /\ failAt = 0

\* one iteration of the for loop of handleWebhookEvents.  storeOk: the
\* storage resolves; readOk: the mark-read request succeeds; failAt: the
\* position of the handler invocation that throws (0: none does)
ProcessEvent ==
  /\ pc = "processing"
  /\ idx <= Len(extractedData)
  /\ LET data == extractedData[idx]
         isMessage == data.eventType.category = "message"
         planned == PlannedInvocations(handlers, data)
     IN  \E storeOk \in (IF isMessage THEN BOOLEAN ELSE {TRUE}) :
         \E readOk \in (IF storeOk /\ MarksRead(cfg, data) THEN BOOLEAN ELSE {TRUE}) :
         \E failAt \in (IF storeOk THEN 0..Len(planned) ELSE {0}) :
           LET invoked == IF ~storeOk THEN 0
                          ELSE IF failAt = 0 THEN Len(planned) ELSE failAt
               ok == EventOk(storeOk, readOk, failAt)
               marked == storeOk /\ MarksRead(cfg, data)
           IN  /\ states' = IF Truthy(data.conversationId)
                            THEN updateStateFromMessage(states, data, now)
                            ELSE states
               /\ messages' = IF isMessage /\ storeOk
                              THEN StoreRecord(messages, IncomingRecord(data))
                              ELSE messages
               /\ conversationIndex' = IF isMessage /\ storeOk
                                       THEN StoreIndex(conversationIndex, IncomingRecord(data))
                                       ELSE conversationIndex
               /\ messageStatistics' =
                    [messageStatistics EXCEPT
                       !.received = IF isMessage /\ storeOk THEN @ + 1 ELSE @,
                       !.read = IF marked /\ readOk THEN @ + 1 ELSE @,
                       !.failed = IF marked /\ ~readOk THEN @ + 1 ELSE @]
               /\ emitted' = IF marked /\ readOk
                             THEN Append(emitted, [name |-> "messageRead",
                                                   id |-> data.messageId])
                             ELSE emitted
               /\ calls' = calls \o [k \in 1..invoked |->
                                       [event |-> idx,
                                        handler |-> planned[k].handler,
                                        argument |-> planned[k].argument,
                                        threw |-> k = failAt]]
               /\ processedEvents' = IF ok THEN Append(processedEvents, data)
                                     ELSE processedEvents
               /\ errors' = IF ok THEN errors ELSE Append(errors, data.eventType)
               /\ outcomes' = Append(outcomes, IF ok THEN "processed" ELSE "error")
               /\ idx' = AfterEvent(idx, ok, Len(extractedData))
               /\ inbound' = IF isMessage THEN Bump(inbound, data.conversationId)
                             ELSE inbound
  /\ UNCHANGED <<cfgVars, now, pc, callRequest, extractedData, result, eventsSeen,
                 atEntry, extractVars, probeVars, concurrentVars, limiterVars, taskVars, queueVars, sendVars>>

AggregatedResultAlwaysOk(extracted, processed, errs, st) ==
  [success         |-> TRUE,
   status          |-> 200,
   code            |-> NoValue,
   message         |-> NoValue,
   challenge       |-> NoValue,
   events          |-> processed,
   totalEvents     |-> Len(extracted),
   processedEvents |-> Len(processed),
   errors          |-> Len(errs),
   conversations   |-> getActiveConversations(st)]

AggregatedResultSignatureLast(extracted, processed, errs, st) ==
  createErrorResult(401, "INVALID_SIGNATURE", "Webhook signature verification failed")

\* the return statement of handleWebhookEvents
AggregatedResult(extracted, processed, errs, st) ==
  [success         |-> Len(errs) = 0,
   status          |-> 200,
   code            |-> IF Len(errs) > 0 THEN "PARTIAL_PROCESSING" ELSE NoValue,
   message         |-> IF Len(errs) > 0
                       THEN ToString(Len(errs)) \o " events failed to process"
                       ELSE NoValue,
   challenge       |-> NoValue,
   events          |-> processed,
   totalEvents     |-> Len(extracted),
   processedEvents |-> Len(processed),
   errors          |-> Len(errs),
   conversations   |-> getActiveConversations(st)]

Aggregate ==
  /\ pc = "processing"
  /\ idx > Len(extractedData)
  /\ result' = AggregatedResult(extractedData, processedEvents, errors, states)
  /\ pc' = "aggregated"
  /\ UNCHANGED <<cfgVars, dataVars, callRequest, extractedData, idx, processedEvents,
                 errors, calls, outcomes, histVars, extractVars, probeVars, concurrentVars, limiterVars, taskVars, queueVars, sendVars>>

\* the caller has the result; the locals of the call are gone
Return ==
  /\ pc \in {"aggregated", "terminal"}
  /\ pc' = "idle"
  /\ callRequest' = NoRequest
  /\ result' = NoResult
  /\ extractedData' = <<>>
  /\ idx' = 1
  /\ processedEvents' = <<>>
  /\ errors' = <<>>
  /\ calls' = <<>>
  /\ outcomes' = <<>>
  /\ atEntry' = NoSnapshot
  /\ UNCHANGED <<cfgVars, dataVars, inbound, eventsSeen, extractVars, probeVars, concurrentVars, limiterVars, taskVars, queueVars,
                 sendVars>>

\* setWebhookHandlers: this.webhookHandlers = { ...this.webhookHandlers, ...handlers }
SetWebhookHandlers(given) ==
  /\ pc = "idle"
  /\ handlers' = handlers \cup given
  /\ UNCHANGED <<cfg, dataVars, callVars, histVars, extractVars, probeVars, concurrentVars, limiterVars, taskVars, queueVars, sendVars>>

-----------------------------------------------------------------------------
(* The provider delivering signed webhooks to a configured handler *)

DispatchMessages ==
  { [id |-> "wamid.A", from |-> "555", fields |-> {"text"}],
    [id |-> "wamid.B", from |-> "555", fields |-> {"image"}],
    [id |-> "wamid.B", from |-> NoValue, fields |-> {}] }

DispatchStatuses ==
  { [id |-> "wamid.A", status |-> "delivered", recipient_id |-> "555"] }

DispatchContacts == <<[wa_id |-> "777", profile_name |-> "Ann"]>>

HandlerChoices == {{"onMessage"}, HandlerNames}

DispatchConfigs ==
  [webhookVerifyToken : {Token}, appSecret : {Secret},
   verifySignature : {"unset"}, autoMarkRead : {"unset", "off"}]

\* a POST as the built-in HTTP server hands it over: raw bytes, with the
\* provider's signature over them
SignedPost(entry) ==
  [method |-> "POST", hasHeaders |-> TRUE,
   signature |-> Hmac(Secret, RawOf(EnvelopeBody(entry), "wire")),
   body |-> Absent,
   rawBody |-> RawOf(EnvelopeBody(entry), "wire"),
   mode |-> NoValue, token |-> NoValue, challenge |-> NoValue]

Deliver ==
  \E a \in 0..(MaxTotalEvents - eventsSeen) :
  \E b \in 0..(MaxTotalEvents - eventsSeen - a) :
  \E c \in 0..(MaxTotalEvents - eventsSeen - a - b) :
  \E ms \in [1..a -> DispatchMessages] :
  \E ss \in [1..b -> DispatchStatuses] :
  \E es \in [1..c -> EnvErrors] :
    ProcessWebhook(SignedPost(
      << <<[contacts |-> DispatchContacts, messages |-> ms,
            statuses |-> ss, errors |-> es]>> >>))

Register == \E given \in HandlerChoices : SetWebhookHandlers(given)

ExtractorOff ==
  /\ envelope = <<>>
  /\ extractOut = <<>>
  /\ xpc = "off"
  /\ NoProbe

Init ==
  /\ \E config \in DispatchConfigs : Constructed(config)
  /\ QueueConstructed(DefaultQueueConfig)
  /\ NoSends
  /\ NoHooks
  /\ LimiterConstructed(0)
  /\ ExtractorOff

Next ==
  \/ Register
  \/ Deliver
  \/ ProcessEvent
  \/ Aggregate
  \/ Return

Spec == Init /\ [][Next]_vars

-----------------------------------------------------------------------------
(* Arbitrary callers sending requests to handlers of every configuration *)

GateConfigs ==
  [webhookVerifyToken : {NoValue, Token}, appSecret : {NoValue, Secret},
   verifySignature : {"unset", "off"}, autoMarkRead : {"off"}]

GateEntry ==
  << <<[contacts |-> DispatchContacts,
        messages |-> <<[id |-> "wamid.A", from |-> "555", fields |-> {"text"}]>>,
        statuses |-> <<>>, errors |-> <<>>]>> >>

GateRaw == RawOf(EnvelopeBody(GateEntry), "wire")

\* verification requests: every combination of the three query parameters
GateGets ==
  [method    : {"GET"},
   hasHeaders : BOOLEAN,
   signature : {Absent},
   body      : {Absent},
   rawBody   : {Absent},
   mode      : {NoValue, "subscribe", "unsubscribe"},
   token     : {NoValue, Token, DefaultVerifyToken, "guessed"},
   challenge : {NoValue, "123"}]

\* submissions: every combination of signature header, parsed body and raw body
GatePosts ==
  [method    : {"POST"},
   hasHeaders : BOOLEAN,
   signature : {Absent, Malformed, Hmac(Secret, GateRaw), Hmac("guessed", GateRaw),
                Hmac(Secret, NotJson)},
   body      : {Absent, EnvelopeBody(GateEntry), EmptyObject},
   rawBody   : {Absent, GateRaw, NotJson},
   mode      : {NoValue},
   token     : {NoValue},
   challenge : {NoValue}]

\* requests with another method, or none
GateOthers ==
  [method    : {"PUT", NoValue},
   hasHeaders : BOOLEAN,
   signature : {Absent},
   body      : {Absent},
   rawBody   : {Absent, GateRaw},
   mode      : {NoValue},
   token     : {NoValue},
   challenge : {NoValue}]

GateRequests == GateGets \cup GatePosts \cup GateOthers

Request == \E request \in GateRequests : ProcessWebhook(request)

GateInit ==
  /\ \E config \in GateConfigs : Constructed(config)
  /\ QueueConstructed(DefaultQueueConfig)
  /\ NoSends
  /\ NoHooks
  /\ LimiterConstructed(0)
  /\ ExtractorOff

GateNext ==
  \/ Register
  \/ Request
  \/ ProcessEvent
  \/ Aggregate
  \/ Return

SpecGate == GateInit /\ [][GateNext]_vars

-----------------------------------------------------------------------------
(* The provider composes an envelope; the extractor is applied to it *)

LastEntry == Len(envelope)

LastChange == Len(envelope[LastEntry])

\* the provider starts a new entry or change once the last one carries an event
LastChangeUsed ==
  IF Len(envelope) = 0 THEN TRUE
  ELSE IF Len(envelope[LastEntry]) = 0 THEN FALSE
  ELSE ValueEvents(envelope[LastEntry][LastChange]) > 0

AddEntry ==
  /\ xpc = "building"
  /\ Len(envelope) < MaxEntries
  /\ LastChangeUsed
  /\ envelope' = Append(envelope, <<>>)
  /\ UNCHANGED <<extractOut, xpc, webhookVars, queueVars, sendVars, probeVars, concurrentVars, limiterVars, taskVars>>

AddChange ==
  /\ xpc = "building"
  /\ Len(envelope) > 0
  /\ Len(envelope[LastEntry]) < MaxEntries
  /\ IF Len(envelope[LastEntry]) = 0 THEN TRUE ELSE LastChangeUsed
  /\ \E contacts \in EnvContacts :
       envelope' = [envelope EXCEPT ![LastEntry] = Append(@, EmptyValue(contacts))]
  /\ UNCHANGED <<extractOut, xpc, webhookVars, queueVars, sendVars, probeVars, concurrentVars, limiterVars, taskVars>>

CanAddEvent ==
  /\ xpc = "building"
  /\ Len(envelope) > 0
  /\ Len(envelope[LastEntry]) > 0
  /\ EnvelopeEvents(envelope) < MaxEnvEvents

AddMessage ==
  /\ CanAddEvent
  /\ \E m \in EnvMessages :
       envelope' = [envelope EXCEPT ![LastEntry][LastChange].messages = Append(@, m)]
  /\ UNCHANGED <<extractOut, xpc, webhookVars, queueVars, sendVars, probeVars, concurrentVars, limiterVars, taskVars>>

AddStatus ==
  /\ CanAddEvent
  /\ \E s \in EnvStatuses :
       envelope' = [envelope EXCEPT ![LastEntry][LastChange].statuses = Append(@, s)]
  /\ UNCHANGED <<extractOut, xpc, webhookVars, queueVars, sendVars, probeVars, concurrentVars, limiterVars, taskVars>>

AddError ==
  /\ CanAddEvent
  /\ \E x \in EnvErrors :
       envelope' = [envelope EXCEPT ![LastEntry][LastChange].errors = Append(@, x)]
  /\ UNCHANGED <<extractOut, xpc, webhookVars, queueVars, sendVars, probeVars, concurrentVars, limiterVars, taskVars>>

Extract ==
  /\ xpc = "building"
  /\ extractOut' = extractMessageData(envelope)
  /\ xpc' = "extracted"
  /\ UNCHANGED <<envelope, webhookVars, queueVars, sendVars, probeVars, concurrentVars, limiterVars, taskVars>>

ExtractInit ==
  /\ NoProbe
  /\ envelope = <<>>
  /\ extractOut = <<>>
  /\ xpc = "building"
  /\ Constructed(DefaultConfig)
  /\ QueueConstructed(DefaultQueueConfig)
  /\ NoSends
  /\ NoHooks
  /\ LimiterConstructed(0)

ExtractNext ==
  \/ AddEntry
  \/ AddChange
  \/ AddMessage
  \/ AddStatus
  \/ AddError
  \/ Extract

SpecExtract == ExtractInit /\ [][ExtractNext]_vars

-----------------------------------------------------------------------------
(* The delivery loop of startQueueProcessor over the handler's MessageQueue.
   Items are put on the queue by code that holds the queue: no public method
   of the handler calls enqueue, the loop's own re-enqueue apart. *)

MaxEnqueues == 3

MaxAttempts == 4

QueueConfigs == [maxRetries : {0, 1, 2}, maxQueueSize : {1, 2}]

QueueId(n) == "q" \o ToString(n)

TotalAttempts ==
  SumSeq([n \in 1..enqueued |->
            IF QueueId(n) \in DOMAIN attemptsMade THEN attemptsMade[QueueId(n)] ELSE 0])

\* a caller's messageQueue.enqueue(item)
Enqueue ==
  \E priority \in {0, 1} :
    LET given == [id |-> QueueId(enqueued + 1), to |-> "555", type |-> "text",
                  priority |-> priority]
        after == enqueue(queue, maxSize, given, now)
    IN  /\ enqueued < MaxEnqueues
        /\ queue' = after
        /\ lastEnqueue' = [by |-> "caller", returned |-> enqueueReturns(queue, maxSize),
                           before |-> queue, after |-> after]
        /\ enqueued' = enqueued + 1
        /\ attemptsMade' = IF enqueueReturns(queue, maxSize)
                           THEN [i \in {given.id} |-> 0] @@ attemptsMade
                           ELSE attemptsMade
        /\ delivered' = IF enqueueReturns(queue, maxSize)
                        THEN [i \in {given.id} |-> 0] @@ delivered
                        ELSE delivered
        /\ UNCHANGED <<maxSize, maxRetries, isQueueProcessing, item, sendVars,
                       webhookServer, stopped, webhookVars, extractVars, probeVars, concurrentVars, limiterVars, taskVars>>

\* processQueue up to its await: the guard, isQueueProcessing = true, dequeue
\* and the request leaving
QueueDequeue ==
  /\ ~isQueueProcessing
  /\ queue # <<>>
  /\ TotalAttempts < MaxAttempts
  /\ isQueueProcessing' = TRUE
  /\ item' = Head(queue)
  /\ queue' = Tail(queue)
  /\ attemptsMade' = Bump(attemptsMade, Head(queue).id)
  /\ UNCHANGED <<maxSize, maxRetries, lastEnqueue, enqueued, delivered, sendVars,
                 webhookServer, stopped, webhookVars, extractVars, probeVars, concurrentVars, limiterVars, taskVars>>

\* processQueue after the await, the request having resolved
QueueDelivered ==
  /\ isQueueProcessing
  /\ messageStatistics' = [messageStatistics EXCEPT !.sent = @ + 1]
  /\ emitted' = Append(emitted, [name |-> "queuedMessageSent", id |-> item.id])
  /\ delivered' = Bump(delivered, item.id)
  /\ isQueueProcessing' = FALSE
  /\ item' = NoItem
  /\ UNCHANGED <<queue, maxSize, maxRetries, lastEnqueue, enqueued, attemptsMade,
                 webhookServer, stopped,
                 sendVars, cfgVars, states, messages, conversationIndex, now,
                 callVars, histVars, extractVars, probeVars, concurrentVars, limiterVars, taskVars>>

\* processQueue after the await, _makeRequest having thrown: the catch block
QueueFailed ==
  /\ isQueueProcessing
  /\ LET attempts == item.attempts + 1
         again == [item EXCEPT !.attempts = attempts, !.timestamp = now]
         after == enqueue(queue, maxSize, again, now)
     IN  IF attempts < maxRetries
         THEN /\ queue' = after
              /\ lastEnqueue' = [by |-> "loop",
                                 returned |-> enqueueReturns(queue, maxSize),
                                 before |-> queue, after |-> after]
              /\ UNCHANGED emitted
         ELSE /\ emitted' = Append(emitted,
                                   [name |-> "queuedMessageFailed", id |-> item.id])
              /\ UNCHANGED <<queue, lastEnqueue>>
  /\ messageStatistics' = [messageStatistics EXCEPT !.failed = @ + 1]
  /\ isQueueProcessing' = FALSE
  /\ item' = NoItem
  /\ UNCHANGED <<maxSize, maxRetries, enqueued, attemptsMade, delivered,
                 webhookServer, stopped,
                 sendVars, cfgVars, states, messages, conversationIndex, now,
                 callVars, histVars, extractVars, probeVars, concurrentVars, limiterVars, taskVars>>

\* startWebhookServer: throws while a server is held, else creates one and
\* listens; the delivery loop is not touched
StartWebhookServer ==
  /\ ~webhookServer
  /\ webhookServer' = TRUE
  /\ stopped' = NoStop
  /\ UNCHANGED <<queue, maxSize, maxRetries, isQueueProcessing, item, lastEnqueue,
                 enqueued, attemptsMade, delivered, sendVars, webhookVars,
                 extractVars, probeVars, concurrentVars, limiterVars, taskVars>>

\* stopWebhookServer, its promise resolving: rejects with no server held, else
\* closes the server and sets webhookServer to null; the timer of processQueue
\* is not cleared and no flag of the loop is set
StopWebhookServer ==
  /\ webhookServer
  /\ webhookServer' = FALSE
  /\ stopped' = [resolved |-> TRUE, attempts |-> TotalAttempts]
  /\ UNCHANGED <<queue, maxSize, maxRetries, isQueueProcessing, item, lastEnqueue,
                 enqueued, attemptsMade, delivered, sendVars, webhookVars,
                 extractVars, probeVars, concurrentVars, limiterVars, taskVars>>

QueueInit ==
  /\ Constructed(DefaultConfig)
  /\ \E config \in QueueConfigs : QueueConstructed(config)
  /\ NoSends
  /\ NoHooks
  /\ LimiterConstructed(0)
  /\ ExtractorOff

QueueNext ==
  \/ Enqueue
  \/ QueueDequeue
  \/ QueueDelivered
  \/ QueueFailed
  \/ StartWebhookServer
  \/ StopWebhookServer

SpecQueue == QueueInit /\ [][QueueNext]_vars

-----------------------------------------------------------------------------
(* sendMessage and sendVoice against the in-memory storage *)

MaxSends == 2

MaxClock == 2

Recipients == {"555", "777"}

\* the fresh local id `out_${Date.now()}_${random}`; the random part is
\* modelled by the number of the call
LocalId(t, n) == "out_" \o ToString(t) \o "_" \o ToString(n)

\* the storedMessage of sendMessage (type text) and sendVoice (type voice)
PendingRecord(to, type, t, n) ==
  [id             |-> LocalId(t, n),
   whatsappId     |-> NoValue,
   conversationId |-> to,
   direction      |-> "outgoing",
   type           |-> type,
   timestamp      |-> t,
   status         |-> "pending",
   error          |-> NoValue]

SentRecordStaysPending(stored, providerId) == [stored EXCEPT !.whatsappId = providerId]

\* storedMessage.whatsappId = response.messages[0]?.id; storedMessage.status = 'sent'
SentRecord(stored, providerId) ==
  [stored EXCEPT !.whatsappId = providerId, !.status = "sent"]

\* storedMessage.status = 'failed'; storedMessage.error = {code: 500, ...}
FailedRecord(stored) == [stored EXCEPT !.status = "failed", !.error = "500"]

\* Date.now() moves on
Tick ==
  /\ now < MaxClock
  /\ now' = now + 1
  /\ UNCHANGED <<cfgVars, states, messages, conversationIndex, messageStatistics,
                 emitted, callVars, histVars, extractVars, probeVars, concurrentVars, limiterVars, taskVars, queueVars, sendVars>>

\* sendMessage / sendVoice up to the await of _makeRequest: the record is
\* stored as pending
SendStart ==
  \E to \in Recipients, type \in {"text", "voice"} :
    LET pending == PendingRecord(to, type, now, Len(sends) + 1)
    IN  /\ sendpc = "idle"
        /\ Len(sends) < MaxSends
        /\ storedMessage' = pending
        /\ messages' = StoreRecord(messages, pending)
        /\ conversationIndex' = StoreIndex(conversationIndex, pending)
        /\ sendpc' = "pending"
        /\ UNCHANGED <<cfgVars, states, messageStatistics, emitted, now, callVars,
                       histVars, extractVars, probeVars, concurrentVars, limiterVars, taskVars, queueVars, sends>>

\* the request resolved: the record is stored again as sent
SendResolved ==
  \E providerId \in {"wamid.S", NoValue} :
    LET sent == SentRecord(storedMessage, providerId)
    IN  /\ sendpc = "pending"
        /\ messages' = StoreRecord(messages, sent)
        /\ conversationIndex' = StoreIndex(conversationIndex, sent)
        /\ messageStatistics' = [messageStatistics EXCEPT !.sent = @ + 1]
        /\ emitted' = Append(emitted, [name |-> "messageSent", id |-> sent.id])
        /\ sends' = Append(sends, [id |-> sent.id, to |-> sent.conversationId,
                                   whatsappId |-> providerId, outcome |-> "sent"])
        /\ sendpc' = "idle"
        /\ storedMessage' = NoItem
        /\ UNCHANGED <<cfgVars, states, now, callVars, histVars, extractVars, probeVars, concurrentVars, limiterVars, taskVars,
                       queueVars>>

\* the request threw: the record is stored again as failed
SendRejected ==
  LET failed == FailedRecord(storedMessage)
  IN  /\ sendpc = "pending"
      /\ messages' = StoreRecord(messages, failed)
      /\ conversationIndex' = StoreIndex(conversationIndex, failed)
      /\ messageStatistics' = [messageStatistics EXCEPT !.failed = @ + 1]
      /\ emitted' = Append(emitted, [name |-> "messageFailed", id |-> failed.id])
      /\ sends' = Append(sends, [id |-> failed.id, to |-> failed.conversationId,
                                 whatsappId |-> NoValue, outcome |-> "failed"])
      /\ sendpc' = "idle"
      /\ storedMessage' = NoItem
      /\ UNCHANGED <<cfgVars, states, now, callVars, histVars, extractVars, probeVars, concurrentVars, limiterVars, taskVars,
                     queueVars>>

SendInit ==
  /\ Constructed(DefaultConfig)
  /\ QueueConstructed(DefaultQueueConfig)
  /\ NoSends
  /\ NoHooks
  /\ LimiterConstructed(0)
  /\ ExtractorOff

SendNext ==
  \/ Tick
  \/ SendStart
  \/ SendResolved
  \/ SendRejected

SpecSend == SendInit /\ [][SendNext]_vars

-----------------------------------------------------------------------------
(* The provider delivering one event per webhook, of every kind there is *)

MaxTableEvents == 2

\* one message per content field, and one with none
TableMessages ==
  { [id |-> "wamid.A", from |-> "555", fields |-> {ContentFields[k]}]
      : k \in 1..Len(ContentFields) }
    \cup { [id |-> "wamid.A", from |-> "555", fields |-> {}] }

TableValues ==
  { [contacts |-> DispatchContacts, messages |-> <<m>>, statuses |-> <<>>,
     errors |-> <<>>] : m \in TableMessages }
    \cup { [contacts |-> DispatchContacts, messages |-> <<>>, statuses |-> <<st>>,
            errors |-> <<>>] : st \in DispatchStatuses }
    \cup { [contacts |-> DispatchContacts, messages |-> <<>>, statuses |-> <<>>,
            errors |-> <<e>>] : e \in EnvErrors }

DeliverOne ==
  \E value \in TableValues :
    /\ eventsSeen < MaxTableEvents
    /\ ProcessWebhook(SignedPost(<< <<value>> >>))

TableNext ==
  \/ Register
  \/ DeliverOne
  \/ ProcessEvent
  \/ Aggregate
  \/ Return

SpecTable == Init /\ [][TableNext]_vars

-----------------------------------------------------------------------------
(* determineMessageEventType called on its own: every set of content fields,
   and a field it does not know *)

ClassifyFields == {ContentFields[k] : k \in 1..Len(ContentFields)} \cup {"button"}

Classify ==
  /\ verdict = NoVerdict
  /\ verdict' = determineMessageEventType(probe)
  /\ UNCHANGED <<probe, extractVars, webhookVars, queueVars, sendVars, concurrentVars, limiterVars, taskVars>>

ClassifyInit ==
  /\ Constructed(DefaultConfig)
  /\ QueueConstructed(DefaultQueueConfig)
  /\ NoSends
  /\ NoHooks
  /\ LimiterConstructed(0)
  /\ envelope = <<>>
  /\ extractOut = <<>>
  /\ xpc = "off"
  /\ probe \in [id : {"wamid.A"}, from : {"555"}, fields : SUBSET ClassifyFields]
  /\ verdict = NoVerdict

ClassifyNext == Classify

SpecClassify == ClassifyInit /\ [][ClassifyNext]_vars

-----------------------------------------------------------------------------
(* ConversationStateManager called on its own: updateState with every partial
   update, and updateContext *)

MaxUpdates == 2

\* a field of a partial update: left out, or given with a value
Given(values) == [given : {TRUE}, value : values] \cup {[given |-> FALSE]}

UpdateChoices ==
  [state        : Given({"waiting"}),
   lastActivity : Given({99}),
   messageCount : Given({7}),
   displayName  : Given({"Ann", "Bob"}),
   context      : Given({[a |-> "1"]})]

\* the object literal a caller passes: the given fields only
PartialOf(choice) ==
  [f \in {g \in DOMAIN choice : choice[g].given} |-> choice[f].value]

\* the partial updates callers pass to updateState
PartialUpdates == {PartialOf(choice) : choice \in UpdateChoices}

ContextChoices == {[a |-> "2"], [b |-> "1"], [a |-> "3", b |-> "2"]}

\* the state of a conversation, or EmptyRecord when it has none (undefined)
StateOf(st, conversationId) ==
  IF conversationId \in DOMAIN st THEN st[conversationId] ELSE EmptyRecord

\* probe is the log of the calls made; the clock moves on between calls
Logged(op, conversationId, updates) ==
  /\ Len(probe) < MaxUpdates
  /\ probe' = Append(probe, [op |-> op, conversationId |-> conversationId,
                             updates |-> updates, at |-> now,
                             before |-> StateOf(states, conversationId),
                             after |-> StateOf(states', conversationId),
                             known |-> DOMAIN states,
                             knownAfter |-> DOMAIN states'])
  /\ verdict' = StateOf(states', conversationId)
  /\ now' = now + 1
  /\ UNCHANGED <<cfgVars, messages, conversationIndex, messageStatistics, emitted,
                 callVars, histVars, extractVars, queueVars, sendVars, concurrentVars, limiterVars, taskVars>>

UpdateState ==
  \E updates \in PartialUpdates :
    /\ states' = updateState(states, "555", updates, now)
    /\ Logged("updateState", "555", updates)

UpdateContext ==
  \E context \in ContextChoices :
    /\ states' = updateContext(states, "555", context, now)
    /\ Logged("updateContext", "555", context)

\* the events updateStateFromMessage is called with: a known sender with and
\* without a profile name, and another sender
MergeEvents ==
  {[conversationId |-> "555", displayName |-> "Cid"],
   [conversationId |-> "555", displayName |-> NoValue],
   [conversationId |-> "777", displayName |-> "Dee"]}

UpdateStateFromMessage ==
  \E extracted \in MergeEvents :
    /\ states' = updateStateFromMessage(states, extracted, now)
    /\ Logged("updateStateFromMessage", extracted.conversationId, extracted)

\* setStep: updateState(conversationId, { currentStep: step })
SetStep ==
  /\ states' = updateState(states, "555", [currentStep |-> "checkout"], now)
  /\ Logged("setStep", "555", [currentStep |-> "checkout"])

MergeInit ==
  /\ Constructed(DefaultConfig)
  /\ QueueConstructed(DefaultQueueConfig)
  /\ NoSends
  /\ NoHooks
  /\ LimiterConstructed(0)
  /\ envelope = <<>>
  /\ extractOut = <<>>
  /\ xpc = "off"
  /\ probe = <<>>
  /\ verdict = NoVerdict

MergeNext ==
  \/ UpdateState
  \/ UpdateContext
  \/ UpdateStateFromMessage
  \/ SetStep

SpecMerge == MergeInit /\ [][MergeNext]_vars

-----------------------------------------------------------------------------
(* processWebhook calls running side by side on one handler.  A call runs
   without interruption from one await to the next; it is suspended at the
   storage write, at the mark-read request and at each user handler it
   invokes.  A user handler, while it runs, may merge a key of its own into
   the context of the conversation through updateContext. *)

MaxRequests == 2

ConcurrentEntries ==
  LET text == [id |-> "wamid.A", from |-> "555", fields |-> {"text"}]
      status == [id |-> "wamid.A", status |-> "delivered", recipient_id |-> "555"]
      value(ms, ss) == [contacts |-> DispatchContacts, messages |-> ms,
                        statuses |-> ss, errors |-> <<>>]
  IN  { << <<value(<<>>, <<status>>)>> >>,
        << <<value(<<text>>, <<status>>)>> >> }

\* autoMarkRead left at its default, on
ConcurrentConfigs ==
  [webhookVerifyToken : {Token}, appSecret : {Secret},
   verifySignature : {"unset"}, autoMarkRead : {"unset"}]

RequestKey(r) == "r" \o ToString(r)

NoUpdates == [updates |-> 0, keys |-> {}]

AppliedTo(conversationId) ==
  IF conversationId \in DOMAIN applied THEN applied[conversationId] ELSE NoUpdates

\* callWebhookHandlers from its k-th invocation on: the handler is invoked and
\* awaited, or, none being registered for the event, the call itself is awaited
Invoke(req, k) ==
  IF Len(PlannedInvocations(handlers, req.events[req.idx])) >= k
  THEN [req EXCEPT !.at = "handler", !.k = k, !.merged = FALSE,
                   !.log = IF k = 1
                           THEN Append(@, [event |-> req.idx, step |-> "handlers"])
                           ELSE @]
  ELSE [req EXCEPT !.at = "dispatch", !.k = 0, !.merged = FALSE]

\* the call where it next suspends once the loop is at event req.idx: at the
\* storage write of a message event, in callWebhookHandlers for another event,
\* and at its return when no event is left
Entered(req, st) ==
  IF req.idx > Len(req.events)
  THEN [req EXCEPT !.at = "done",
                   !.result = AggregatedResult(req.events, req.processedEvents,
                                               req.errors, st),
                   !.processingTime = now - req.startTime]
  ELSE LET begun == [req EXCEPT !.log = Append(@, [event |-> req.idx, step |-> "begin"])]
       IN  IF req.events[req.idx].eventType.category = "message"
           THEN [begun EXCEPT !.at = "store"]
           ELSE Invoke(begun, 1)

\* the loop of handleWebhookEvents reaching event req.idx and running to its
\* first await: updateStateFromMessage and the body of storeMessage
EnterEvent(r, calls_, req) ==
  IF req.idx > Len(req.events)
  THEN /\ requests' = [calls_ EXCEPT ![r] = Entered(req, states)]
       /\ UNCHANGED <<states, messages, conversationIndex, applied>>
  ELSE LET data == req.events[req.idx]
           isMessage == data.eventType.category = "message"
           updated == IF Truthy(data.conversationId)
                      THEN updateStateFromMessage(states, data, now)
                      ELSE states
       IN  /\ states' = updated
           /\ messages' = IF isMessage
                          THEN StoreRecord(messages, IncomingRecord(data))
                          ELSE messages
           /\ conversationIndex' = IF isMessage
                                   THEN StoreIndex(conversationIndex, IncomingRecord(data))
                                   ELSE conversationIndex
           /\ applied' =
                IF Truthy(data.conversationId)
                THEN [c \in DOMAIN applied \cup {data.conversationId} |->
                        IF c = data.conversationId
                        THEN [AppliedTo(c) EXCEPT !.updates = @ + 1]
                        ELSE applied[c]]
                ELSE applied
           /\ requests' = [calls_ EXCEPT ![r] = Entered(req, updated)]

\* the event at req.idx is over: processedEvents.push or errors.push, and the
\* loop goes on
Finish(r, ok) ==
  LET req == requests[r]
      data == req.events[req.idx]
  IN  EnterEvent(r, requests,
                 [req EXCEPT !.idx = AfterEvent(req.idx, ok, Len(req.events)),
                             !.log = Append(@, [event |-> req.idx,
                                                step |-> IF ok THEN "processed"
                                                         ELSE "error"]),
                             !.processedEvents = IF ok THEN Append(@, data) ELSE @,
                             !.errors = IF ok THEN @ ELSE Append(@, data.eventType)])

\* a POST arrives and processWebhook runs up to its first await
Arrive ==
  \E entry \in ConcurrentEntries :
    LET request == SignedPost(entry)
        r == Len(requests) + 1
        req == [events |-> extractMessageData(ParsedBody(request).entry),
                idx |-> 1, at |-> "start", k |-> 0, merged |-> FALSE,
                processedEvents |-> <<>>, errors |-> <<>>, result |-> NoResult,
                startTime |-> now, processingTime |-> 0, log |-> <<>>,
                found |-> {q \in 1..Len(requests) : requests[q].at # "done"}]
    IN  /\ Len(requests) < MaxRequests
        /\ EarlyResult(cfg, request) = NoResult
        /\ EnterEvent(r, Append(requests, req), req)
        /\ UNCHANGED <<messageStatistics, emitted, cfgVars, now, callVars, histVars,
                       extractVars, queueVars, sendVars, probeVars, limiterVars, taskVars>>

\* storeMessage has resolved: received++, then markAsRead or the handlers
Stored(r) ==
  /\ requests[r].at = "store"
  /\ LET req == requests[r]
         data == req.events[req.idx]
     IN  /\ messageStatistics' = [messageStatistics EXCEPT !.received = @ + 1]
         /\ requests' = [requests EXCEPT ![r] = IF MarksRead(cfg, data)
                                                THEN [req EXCEPT !.at = "markRead"]
                                                ELSE Invoke(req, 1)]
  /\ UNCHANGED <<cfgVars, states, messages, conversationIndex, emitted, now, applied,
                 callVars, histVars, extractVars, queueVars, sendVars, probeVars, limiterVars, taskVars>>

\* the mark-read request is over; its failure is logged and swallowed
Marked(r) ==
  /\ requests[r].at = "markRead"
  /\ \E readOk \in BOOLEAN :
       /\ messageStatistics' = [messageStatistics EXCEPT
                                  !.read = IF readOk THEN @ + 1 ELSE @,
                                  !.failed = IF readOk THEN @ ELSE @ + 1]
       /\ emitted' = IF readOk
                     THEN Append(emitted,
                                 [name |-> "messageRead",
                                  id |-> requests[r].events[requests[r].idx].messageId])
                     ELSE emitted
  /\ requests' = [requests EXCEPT ![r] = Invoke(@, 1)]
  /\ UNCHANGED <<cfgVars, states, messages, conversationIndex, now, applied,
                 callVars, histVars, extractVars, queueVars, sendVars, probeVars, limiterVars, taskVars>>

\* the user handler the call is waiting for merges its key into the context
HandlerMerges(r) ==
  /\ requests[r].at = "handler"
  /\ ~requests[r].merged
  /\ LET conversationId == requests[r].events[requests[r].idx].conversationId
     IN  /\ states' = updateContext(states, conversationId,
                                    [key \in {RequestKey(r)} |-> "1"], now)
         /\ applied' = [c \in DOMAIN applied \cup {conversationId} |->
                          IF c = conversationId
                          THEN [AppliedTo(c) EXCEPT !.keys = @ \cup {RequestKey(r)}]
                          ELSE applied[c]]
  /\ requests' = [requests EXCEPT ![r].merged = TRUE]
  /\ UNCHANGED <<cfgVars, messages, conversationIndex, messageStatistics, emitted, now,
                 callVars, histVars, extractVars, queueVars, sendVars, probeVars, limiterVars, taskVars>>

\* the user handler returns or throws: the next handler of the event is
\* invoked, or the event is over
HandlerReturns(r) ==
  /\ requests[r].at = "handler"
  /\ \E threw \in BOOLEAN :
       LET req == requests[r]
           planned == PlannedInvocations(handlers, req.events[req.idx])
       IN  IF ~threw /\ req.k < Len(planned)
           THEN /\ requests' = [requests EXCEPT ![r] = Invoke(req, req.k + 1)]
                /\ UNCHANGED <<states, messages, conversationIndex, applied>>
           ELSE Finish(r, ~threw)
  /\ UNCHANGED <<cfgVars, messageStatistics, emitted, now, callVars, histVars,
                 extractVars, queueVars, sendVars, probeVars, limiterVars, taskVars>>

\* callWebhookHandlers, which invoked no handler, has resolved
Dispatched(r) ==
  /\ requests[r].at = "dispatch"
  /\ Finish(r, TRUE)
  /\ UNCHANGED <<cfgVars, messageStatistics, emitted, now, callVars, histVars,
                 extractVars, queueVars, sendVars, probeVars, limiterVars, taskVars>>

\* the handlers are registered before the first request arrives
RegisterFirst ==
  /\ requests = <<>>
  /\ Register

ConcurrentInit ==
  /\ \E config \in ConcurrentConfigs : Constructed(config)
  /\ QueueConstructed(DefaultQueueConfig)
  /\ NoSends
  /\ NoHooks
  /\ LimiterConstructed(0)
  /\ ExtractorOff

ConcurrentNext ==
  \/ RegisterFirst
  \/ Arrive
  \/ \E r \in 1..Len(requests) : Stored(r)
  \/ \E r \in 1..Len(requests) : Marked(r)
  \/ \E r \in 1..Len(requests) : HandlerMerges(r)
  \/ \E r \in 1..Len(requests) : HandlerReturns(r)
  \/ \E r \in 1..Len(requests) : Dispatched(r)

SpecConcurrent == ConcurrentInit /\ [][ConcurrentNext]_vars

-----------------------------------------------------------------------------
(* One processWebhook call while time passes.  webhookConfig.timeout is set by
   the constructor and read by nothing: no timer is started for a call, so the
   clock moving past the timeout is a step of the clock alone. *)

\* webhookConfig.timeout, in steps of the clock
RequestTimeout == 1

ArriveAlone ==
  /\ requests = <<>>
  /\ Arrive

TimeoutNext ==
  \/ RegisterFirst
  \/ ArriveAlone
  \/ Tick
  \/ \E r \in 1..Len(requests) : Stored(r)
  \/ \E r \in 1..Len(requests) : Marked(r)
  \/ \E r \in 1..Len(requests) : HandlerMerges(r)
  \/ \E r \in 1..Len(requests) : HandlerReturns(r)
  \/ \E r \in 1..Len(requests) : Dispatched(r)

SpecTimeout == ConcurrentInit /\ [][TimeoutNext]_vars

-----------------------------------------------------------------------------
(* RateLimiter.waitForSlot under callers that overlap.  Time moves in steps; a
   window is windowMs steps long.  The limiter's list is held by the age of
   each entry (now - time), which is all waitForSlot reads of it. *)

\* the default of the constructor's windowMs, in steps of the clock
windowMs == 2

LimiterRates == {1, 2}

\* this.requests.filter(time => now - time < this.windowMs)
Unexpired(reqs) == SelectSeq(reqs, LAMBDA age : age < windowMs)

Range(s) == {s[i] : i \in 1..Len(s)}

\* now - Math.min(...this.requests)
OldestAge(reqs) == CHOOSE a \in Range(reqs) : \A b \in Range(reqs) : b <= a

SlotFree(l) == Len(Unexpired(l.requests)) < l.maxRequests

\* this.requests.push(now)
Take(l) == [l EXCEPT !.requests = Append(Unexpired(@), 0)]

\* one run of waitForSlot by caller c, up to its await or its return
waitForSlot(c) ==
  LET kept == Unexpired(limiter.requests)
  IN  IF Len(kept) >= limiter.maxRequests
      THEN /\ limiter' = [limiter EXCEPT !.requests = kept]
           /\ callers' = [callers EXCEPT ![c] = [at |-> "waiting",
                                                 timer |-> windowMs - OldestAge(kept),
                                                 waited |-> TRUE]]
           /\ UNCHANGED grants
      ELSE /\ limiter' = Take(limiter)
           /\ callers' = [callers EXCEPT ![c] = [@ EXCEPT !.at = "granted", !.timer = 0]]
           /\ grants' = Append(grants, 0)

\* a caller calls waitForSlot
Call(c) ==
  /\ callers[c].at = "idle"
  /\ waitForSlot(c)
  /\ UNCHANGED <<extractVars, webhookVars, queueVars, sendVars, probeVars, concurrentVars, taskVars>>

\* the timer of a waiting caller has fired: return this.waitForSlot()
Wake(c) ==
  /\ callers[c].at = "waiting"
  /\ callers[c].timer = 0
  /\ waitForSlot(c)
  /\ UNCHANGED <<extractVars, webhookVars, queueVars, sendVars, probeVars, concurrentVars, taskVars>>

\* a caller that was granted its slot is done with it; it may call again
Leave(c) ==
  /\ callers[c].at = "granted"
  /\ callers' = [callers EXCEPT ![c] = NoCaller]
  /\ UNCHANGED <<limiter, grants, extractVars, webhookVars, queueVars, sendVars, probeVars,
                 concurrentVars, taskVars>>

Older(age) == IF age < windowMs THEN age + 1 ELSE age

\* Date.now() moves on by one step
TimePasses ==
  /\ limiter' = [limiter EXCEPT !.requests = [i \in 1..Len(@) |-> Older(@[i])]]
  /\ callers' = [c \in 1..Len(callers) |->
                   [callers[c] EXCEPT !.timer = IF @ > 0 THEN @ - 1 ELSE 0]]
  /\ grants' = SelectSeq([i \in 1..Len(grants) |-> grants[i] + 1],
                         LAMBDA age : age < windowMs)
  /\ UNCHANGED <<extractVars, webhookVars, queueVars, sendVars, probeVars, concurrentVars, taskVars>>

LimiterInit ==
  /\ Constructed(DefaultConfig)
  /\ QueueConstructed(DefaultQueueConfig)
  /\ NoSends
  /\ NoHooks
  /\ ExtractorOff
  /\ \E rate \in LimiterRates : LimiterConstructed(rate)

LimiterNext ==
  \/ \E c \in 1..MaxCallers : Call(c)
  \/ \E c \in 1..MaxCallers : Wake(c)
  \/ \E c \in 1..MaxCallers : Leave(c)
  \/ TimePasses

\* timers fire and the clock moves; nothing makes a caller call
LimiterFairness ==
  /\ WF_vars(TimePasses)
  /\ \A c \in 1..MaxCallers : WF_vars(Wake(c))

SpecLimiter == LimiterInit /\ [][LimiterNext]_vars /\ LimiterFairness

-----------------------------------------------------------------------------
(* _makeRequest, one call, by either handler class: EnhancedWhatsAppHandler of
   WhatsApp.ts and WhatsAppHandler, which first waits for a slot of its rate
   limiter.  probe holds the call, verdict what it came to. *)

HandlerClasses == {"EnhancedWhatsAppHandler", "WhatsAppHandler"}

\* how a fetch settles: a 2xx, a 429, the abort of the apiTimeout timer, and
\* another non-2xx response
FetchOutcomes == {"ok", "429", "abort", "500"}

\* the errors the catch block retries: RateLimitError and AbortError in
\* WhatsAppHandler; AbortError alone in EnhancedWhatsAppHandler, where a 429 is
\* thrown as a plain Error
RetriedErrors(class) ==
  IF class = "WhatsAppHandler" THEN {"429", "abort"} ELSE {"abort"}

Retried(class, attempt, outcome) ==
  attempt < maxRetries /\ outcome \in RetriedErrors(class)

\* the limiter once a backoff delay, which is no shorter than the window, is over
Expired(l) == [l EXCEPT !.requests = [i \in 1..Len(@) |-> windowMs]]

\* await this.rateLimiter.waitForSlot() by the only caller there is
SlotTaken(class, l) ==
  IF class = "WhatsAppHandler"
  THEN /\ SlotFree(l)
       /\ limiter' = Take(l)
       /\ grants' = <<0>>
       /\ UNCHANGED callers
  ELSE UNCHANGED limiterVars

\* _makeRequest is called (attempt = 1) and runs up to the await of fetch
MakeRequest ==
  /\ probe = NoVerdict
  /\ \E class \in HandlerClasses :
       /\ probe' = [class |-> class, attempt |-> 1, at |-> "fetch", seen |-> <<>>]
       /\ SlotTaken(class, limiter)
  /\ UNCHANGED <<verdict, extractVars, webhookVars, queueVars, sendVars, concurrentVars, taskVars>>

\* fetch settles: the response is returned, or the catch block retries or
\* rethrows
FetchSettles ==
  /\ probe # NoVerdict
  /\ probe.at = "fetch"
  /\ \E outcome \in FetchOutcomes :
       LET seen == Append(probe.seen, outcome)
       IN  IF outcome = "ok"
           THEN /\ probe' = [probe EXCEPT !.at = "returned", !.seen = seen]
                /\ verdict' = [threw |-> FALSE, error |-> NoValue]
                /\ UNCHANGED messageStatistics
           ELSE IF Retried(probe.class, probe.attempt, outcome)
           THEN /\ probe' = [probe EXCEPT !.at = "backoff", !.seen = seen]
                /\ UNCHANGED <<verdict, messageStatistics>>
           ELSE /\ probe' = [probe EXCEPT !.at = "returned", !.seen = seen]
                /\ verdict' = [threw |-> TRUE, error |-> outcome]
                /\ messageStatistics' =
                     IF probe.class = "EnhancedWhatsAppHandler"
                     THEN [messageStatistics EXCEPT !.failed = @ + 1]
                     ELSE messageStatistics
  /\ UNCHANGED <<cfgVars, states, messages, conversationIndex, emitted, now, callVars,
                 histVars, extractVars, queueVars, sendVars, concurrentVars, limiterVars, taskVars>>

\* the delay is over: return this._makeRequest(endpoint, method, data, attempt + 1)
BackoffOver ==
  /\ probe # NoVerdict
  /\ probe.at = "backoff"
  /\ probe' = [probe EXCEPT !.at = "fetch", !.attempt = @ + 1]
  /\ IF probe.class = "WhatsAppHandler"
     THEN SlotTaken(probe.class, Expired(limiter))
     ELSE UNCHANGED limiterVars
  /\ UNCHANGED <<verdict, extractVars, webhookVars, queueVars, sendVars, concurrentVars, taskVars>>

RequestInit ==
  /\ Constructed(DefaultConfig)
  /\ \E config \in QueueConfigs : QueueConstructed(config)
  /\ NoSends
  /\ NoHooks
  /\ LimiterConstructed(0)
  /\ ExtractorOff

RequestNext ==
  \/ MakeRequest
  \/ FetchSettles
  \/ BackoffOver

SpecRequest == RequestInit /\ [][RequestNext]_vars

-----------------------------------------------------------------------------
(* verifySignature called on its own: every secret, payload and signature *)

VerifySecrets == {NoValue, Secret, "guessed"}

VerifyPayloads ==
  {RawOf(EnvelopeBody(GateEntry), "wire"), RawOf(EnvelopeBody(GateEntry), "compact"),
   RawOf(EmptyObject, "wire"), NotJson}

\* headers: none, one of another length, and the genuine signature of every
\* payload under every secret
VerifySignatures ==
  {Absent, Malformed}
    \cup {Hmac(secret, payload) : secret \in VerifySecrets \ {NoValue},
                                  payload \in VerifyPayloads}

Verify ==
  /\ verdict = NoVerdict
  /\ verdict' = verifySignatureCall(cfg, probe.payload, probe.signature)
  /\ UNCHANGED <<probe, extractVars, webhookVars, queueVars, sendVars, concurrentVars, limiterVars, taskVars>>

VerifyInit ==
  /\ \E secret \in VerifySecrets :
       Constructed([DefaultConfig EXCEPT !.appSecret = secret])
  /\ QueueConstructed(DefaultQueueConfig)
  /\ NoSends
  /\ NoHooks
  /\ LimiterConstructed(0)
  /\ envelope = <<>>
  /\ extractOut = <<>>
  /\ xpc = "off"
  /\ probe \in [payload : VerifyPayloads, signature : VerifySignatures]
  /\ verdict = NoVerdict

VerifyNext == Verify

SpecVerify == VerifyInit /\ [][VerifyNext]_vars

-----------------------------------------------------------------------------
(* Properties of the webhook dispatcher *)

OutcomeCount(o) == Cardinality({i \in 1..Len(outcomes) : outcomes[i] = o})

\* the events, in order, that the loop gave outcome o
RECURSIVE EventsWith(_, _)
EventsWith(o, n) ==
  IF n = 0 THEN <<>>
  ELSE IF outcomes[n] = o THEN Append(EventsWith(o, n - 1), extractedData[n])
  ELSE EventsWith(o, n - 1)

InvocationsOf(i, handler) ==
  Cardinality({k \in 1..Len(calls) : calls[k].event = i /\ calls[k].handler = handler})

C2_AggregatedResultPartitions ==
  pc = "aggregated" =>
    /\ result.status = 200
    /\ result.success <=> (result.errors = 0)
    /\ result.totalEvents = Len(extractedData)
    /\ result.totalEvents = result.processedEvents + result.errors
    /\ result.events = EventsWith("processed", Len(outcomes))
    /\ result.processedEvents = Len(result.events)
    /\ result.errors = Len(errors)
    /\ errors = [k \in 1..Len(errors) |-> EventsWith("error", Len(outcomes))[k].eventType]

\* C2 witness: a message event whose handler threw and a status event that
\* succeeded: success = false, processedEvents = 1, errors = 1.
C2_Witness ==
  /\ pc = "aggregated"
  /\ Len(extractedData) = 2
  /\ extractedData[1].eventType.category = "message"
  /\ extractedData[2].eventType.category = "status"
  /\ InvocationsOf(1, "onMessage") = 1
  /\ outcomes = <<"error", "processed">>
  /\ ~result.success
  /\ result.processedEvents = 1
  /\ result.errors = 1

\* C3 (as claimed): a processed message:text event with onMessage registered
\* has the generic message handler invoked exactly once.
C3_GenericHandlerOncePerText ==
  \A i \in 1..Len(outcomes) :
    ( /\ extractedData[i].eventType = [category |-> "message", type |-> "text"]
      /\ outcomes[i] = "processed"
      /\ "onMessage" \in handlers )
    => InvocationsOf(i, "onMessage") = 1

\* C8 (as claimed): the messageCount of every conversation equals the number
\* of inbound message events processed for it; status and system events leave
\* it unchanged.
C8_MessageCountIsInboundCount ==
  \A c \in DOMAIN states :
    states[c].messageCount = (IF c \in DOMAIN inbound THEN inbound[c] ELSE 0)

\* C4 (as claimed): with signature verification required and no app secret
\* configured, no POST gets past the signature check: nothing is extracted,
\* stored or dispatched.
C4_NoSecretFailsClosed ==
  (cfg.verifySignature /\ cfg.appSecret = NoValue) =>
    /\ pc \notin {"processing", "aggregated"}
    /\ states = NoStates
    /\ messages = NoMessages
    /\ calls = <<>>

\* C5: a verification GET (one that passes request validation) succeeds, with
\* status 200 and exactly the supplied challenge, if and only if hub.mode is
\* 'subscribe', hub.verify_token equals the verify token of the configuration
\* and hub.challenge is non-empty; otherwise the result is the 403
\* VERIFICATION_FAILED failure, which carries no challenge.
C5_VerificationIff ==
  (pc = "terminal" /\ callRequest.method = "GET" /\ callRequest.hasHeaders) =>
    IF /\ callRequest.mode = "subscribe"
       /\ callRequest.token = cfg.verifyToken
       /\ callRequest.challenge # NoValue
    THEN /\ result.success
         /\ result.status = 200
         /\ result.challenge = callRequest.challenge
    ELSE /\ ~result.success
         /\ result.status = 403
         /\ result.code = "VERIFICATION_FAILED"
         /\ result.challenge = NoValue

\* C5 witness: the handshake with the configured token and challenge "123".
C5_Witness ==
  /\ pc = "terminal"
  /\ callRequest.method = "GET"
  /\ cfg.verifyToken = Token
  /\ callRequest.token = Token
  /\ result.status = 200
  /\ result.challenge = "123"

-----------------------------------------------------------------------------
(* Properties of the extractor *)

\* the places of the messages (kind 1) and statuses (kind 2) of an envelope
SourceKeys(env) ==
  UNION { UNION { {<<e, c, 1, i>> : i \in 1..Len(env[e][c].messages)}
                    \cup {<<e, c, 2, i>> : i \in 1..Len(env[e][c].statuses)}
                  : c \in 1..Len(env[e]) }
          : e \in 1..Len(env) }

\* envelope order: entries, then changes, then messages before statuses
KeyBefore(a, b) ==
  \E n \in 1..4 : a[n] < b[n] /\ \A m \in 1..(n - 1) : a[m] = b[m]

KeyRank(env, key) ==
  Cardinality({other \in SourceKeys(env) : KeyBefore(other, key)}) + 1

KeyItem(env, key) ==
  IF key[3] = 1 THEN env[key[1]][key[2]].messages[key[4]]
  ELSE env[key[1]][key[2]].statuses[key[4]]

NoEnvelopeErrors(env) ==
  \A e \in 1..Len(env) : \A c \in 1..Len(env[e]) : Len(env[e][c].errors) = 0

\* C10: for an envelope with N messages and M statuses and no top-level
\* errors, extractMessageData returns exactly N+M events, in envelope order
\* (entries, changes, within a change the messages then the statuses), each
\* carrying the id of its source item: nothing is reordered or dropped.
C10_ExtractionKeepsOrderAndCount ==
  (xpc = "extracted" /\ NoEnvelopeErrors(envelope)) =>
    /\ Len(extractOut) = Cardinality(SourceKeys(envelope))
    /\ \A key \in SourceKeys(envelope) :
         LET event == extractOut[KeyRank(envelope, key)]
         IN  /\ event.messageId = KeyItem(envelope, key).id
             /\ event.eventType.category = (IF key[3] = 1 THEN "message" ELSE "status")

\* C10 witness: an envelope of two entries in which one message id occurs
\* twice, beside a status; all three are extracted.
C10_Witness ==
  /\ xpc = "extracted"
  /\ NoEnvelopeErrors(envelope)
  /\ Len(envelope) = 2
  /\ Len(extractOut) = 3
  /\ \E i, j \in 1..3 :
       /\ i < j
       /\ extractOut[i].eventType.category = "message"
       /\ extractOut[j].eventType.category = "message"
       /\ extractOut[i].messageId = extractOut[j].messageId
  /\ \E i \in 1..3 : extractOut[i].eventType.category = "status"

-----------------------------------------------------------------------------
(* The message queue and its delivery loop *)

Queued(id) == \E k \in 1..Len(queue) : queue[k].id = id

InFlight(id) == isQueueProcessing /\ item.id = id

\* the attempts for `id` that have failed
FailuresOf(id) ==
  attemptsMade[id] - delivered[id] - (IF InFlight(id) THEN 1 ELSE 0)

FailureNotices(id) ==
  Len(SelectSeq(emitted, LAMBDA e : e.name = "queuedMessageFailed" /\ e.id = id))

\* C6: a queued item none of whose deliveries succeeds is attempted at most
\* maxRetries times; once maxRetries attempts have failed it has exactly one
\* queuedMessageFailed notification, and it is neither in the queue nor in
\* flight again.
C6_FailingItemGivenUpAfterMaxRetries ==
  \A id \in DOMAIN attemptsMade :
    delivered[id] = 0 =>
      /\ attemptsMade[id] <= maxRetries
      /\ FailuresOf(id) >= maxRetries =>
           /\ FailureNotices(id) = 1
           /\ ~Queued(id)
           /\ ~InFlight(id)

\* C7: a call of enqueue on a queue that already holds maxSize items returns
\* false and leaves the queue as it was, and the queue never holds more than
\* maxSize items.
C7_FullQueueRejects ==
  /\ Len(queue) <= maxSize
  /\ lastEnqueue # NoEnqueue /\ Len(lastEnqueue.before) >= maxSize =>
       /\ ~lastEnqueue.returned
       /\ lastEnqueue.after = lastEnqueue.before

\* C7's case: a caller's enqueue has just been turned away by a full queue,
\* and so has a re-enqueue of the delivery loop at some point
C7_Witness ==
  /\ lastEnqueue # NoEnqueue
  /\ lastEnqueue.by = "caller"
  /\ ~lastEnqueue.returned
  /\ Len(queue) = maxSize
  /\ \E id \in DOMAIN attemptsMade : attemptsMade[id] >= 1

-----------------------------------------------------------------------------
(* Outgoing messages in the store *)

Occurrences(list, id) == Len(SelectSeq(list, LAMBDA m : m.id = id))

\* C9: once a send has stored its message as pending and then as sent, the
\* store holds the record under the original local id, with the provider id,
\* and getMessages for the conversation lists the message exactly once.
C9_SentMessageListedOnce ==
  \A k \in 1..Len(sends) :
    sends[k].outcome = "sent" =>
      /\ sends[k].id \in DOMAIN messages
      /\ messages[sends[k].id].status = "sent"
      /\ messages[sends[k].id].whatsappId = sends[k].whatsappId
      /\ Occurrences(getMessages(messages, conversationIndex, sends[k].to,
                                 DefaultLimit, 0), sends[k].id) = 1

-----------------------------------------------------------------------------
(* Handlers that throw *)

CallsFor(i) == Cardinality({k \in 1..Len(calls) : calls[k].event = i})

\* the handlers callWebhookHandlers selects for an event
SelectedHandlers(data) ==
  LET planned == PlannedInvocations(handlers, data)
  IN  {planned[k].handler : k \in 1..Len(planned)}

\* C11 (as claimed): when a handler invoked for an event throws, the other
\* handlers selected for that event are invoked all the same, the later
\* events still go through the loop, and the event adds exactly one error:
\* every event for which a handler was invoked has had all its selected
\* handlers invoked, whatever its outcome.
C11_ThrowingHandlerStopsNoOther ==
  pc \in {"processing", "aggregated"} =>
    /\ \A i \in 1..Len(outcomes) :
         CallsFor(i) >= 1 =>
           \A h \in SelectedHandlers(extractedData[i]) : InvocationsOf(i, h) >= 1
    /\ Len(errors) = OutcomeCount("error")
    /\ pc = "aggregated" => Len(outcomes) = Len(extractedData)

-----------------------------------------------------------------------------
(* Request-level failures *)

RequestLevelCodes ==
  {"VALIDATION_ERROR", "VERIFICATION_FAILED", "INVALID_SIGNATURE", "INVALID_JSON",
   "METHOD_NOT_ALLOWED"}

\* C12: a processWebhook call that returns a request-level failure
\* (validation, verification, signature, body, method) has left the
\* conversation states, the message store and the statistics counters as it
\* found them, has been through no event and has invoked no handler.
C12_TerminalFailureChangesNothing ==
  (pc \in {"terminal", "aggregated"} /\ result.code \in RequestLevelCodes) =>
    /\ Snapshot = atEntry
    /\ calls = <<>>
    /\ outcomes = <<>>

\* C12 witness: a handler that holds a conversation, a stored message and
\* registered handlers refuses a POST for its signature.
C12_Witness ==
  /\ pc = "terminal"
  /\ result.code = "INVALID_SIGNATURE"
  /\ states # NoStates
  /\ messages # NoMessages
  /\ messageStatistics.received >= 1
  /\ handlers # {}
  /\ Snapshot = atEntry

\* C13: every processWebhook call ends with a WebhookResult whose status is
\* one of 200, 400, 401, 403, 405, 500; a result with another status than 200
\* is a failure with a non-empty code and message; a POST whose signature
\* check fails gets 401 INVALID_SIGNATURE, a method other than GET and POST
\* gets 405 METHOD_NOT_ALLOWED, and an exception on the way to the per-event
\* loop (a body that is no envelope) gets 500.  While the loop runs, it can
\* always either take the next event or aggregate.
C13_AlwaysAStructuredResult ==
  /\ pc = "processing" => idx <= Len(extractedData) + 1
  /\ pc \in {"terminal", "aggregated"} =>
       /\ result # NoResult
       /\ result.status \in {200, 400, 401, 403, 405, 500}
       /\ result.status # 200 =>
            /\ ~result.success
            /\ result.code # NoValue
            /\ result.message # NoValue
       /\ validateRequest(callRequest) =>
            /\ callRequest.method \notin {"GET", "POST"} =>
                 /\ result.status = 405
                 /\ result.code = "METHOD_NOT_ALLOWED"
            /\ ( /\ callRequest.method = "POST"
                 /\ SignatureChecked(cfg)
                 /\ ~verifySignature(cfg, SignedPayload(callRequest),
                                     callRequest.signature) ) =>
                 /\ result.status = 401
                 /\ result.code = "INVALID_SIGNATURE"
            /\ ( /\ callRequest.method = "POST"
                 /\ SignatureChecked(cfg) =>
                      verifySignature(cfg, SignedPayload(callRequest),
                                      callRequest.signature)
                 /\ BodyParses(callRequest)
                 /\ ParsedBody(callRequest).kind # "envelope" ) =>
                 /\ result.status = 500
                 /\ result.code = "PROCESSING_ERROR"

\* C13 witness: a POST whose parsed body is an object without an entry list
\* makes the extractor throw; the call still returns, with a 500 result.
C13_Witness ==
  /\ pc = "terminal"
  /\ callRequest.method = "POST"
  /\ callRequest.body = EmptyObject
  /\ result.status = 500
  /\ result.code = "PROCESSING_ERROR"
  /\ result.message # NoValue
  /\ ~result.success

-----------------------------------------------------------------------------
(* Signatures *)

\* C14: with a secret configured, verifySignature returns true exactly for
\* the signature made of that very payload under that very secret, and
\* false for a signature of another payload or under another secret; for every
\* header, an absent one and one of another length included, it returns a
\* boolean and does not throw.
C14_SignatureVerifiesIffGenuine ==
  verdict # NoVerdict =>
    /\ ~verdict.threw
    /\ verdict.returned \in BOOLEAN
    /\ cfg.appSecret # NoValue =>
         (verdict.returned <=>
            /\ probe.signature.kind = "sha256"
            /\ probe.signature.secret = cfg.appSecret
            /\ probe.signature.payload = probe.payload)

\* C14 witness: under the configured secret the signature of the compact
\* spelling of a body is refused for the wire spelling of the same body.
C14_Witness ==
  /\ verdict # NoVerdict
  /\ cfg.appSecret = Secret
  /\ probe.payload = RawOf(EnvelopeBody(GateEntry), "wire")
  /\ probe.signature = Hmac(Secret, RawOf(EnvelopeBody(GateEntry), "compact"))
  /\ ~verdict.returned

-----------------------------------------------------------------------------
(* The dispatch table *)

\* the handlers the dispatch table gives for an event type
TableHandlers(eventType) ==
  CASE eventType.category = "status" -> {"onMessageStatus"}
    [] eventType = [category |-> "system", type |-> "webhook_error"] -> {"onError"}
    [] eventType.category = "message"
         /\ eventType.type \in {"image", "video", "audio", "document", "sticker"} ->
         {"onMessage", "onMedia"}
    [] eventType = [category |-> "message", type |-> "voice"] -> {"onMessage", "onVoice"}
    [] eventType = [category |-> "message", type |-> "location"] ->
         {"onMessage", "onLocation"}
    [] eventType = [category |-> "message", type |-> "contact"] ->
         {"onMessage", "onContact"}
    [] eventType = [category |-> "message", type |-> "interactive"] ->
         {"onMessage", "onInteractive"}
    [] eventType = [category |-> "message", type |-> "reaction"] ->
         {"onMessage", "onReaction"}
    [] OTHER -> {}

\* C15: for a processed event of a type other than message:text that has a
\* row in the dispatch table, the registered handlers invoked are exactly
\* those of its row (media types: onMessage and onMedia; voice: onMessage and
\* onVoice; location, contact, interactive, reaction: onMessage and the
\* matching handler; status: onMessageStatus; system:webhook_error: onError),
\* each of them once.
C15_DispatchFollowsTable ==
  \A i \in 1..Len(outcomes) :
    (outcomes[i] = "processed" /\ TableHandlers(extractedData[i].eventType) # {}) =>
      \A h \in HandlerNames :
        InvocationsOf(i, h) =
          (IF h \in TableHandlers(extractedData[i].eventType) \cap handlers
           THEN 1 ELSE 0)

\* C15 witness: with every handler registered a voice message has been
\* processed, onMessage and onVoice invoked for it.
C15_Witness ==
  /\ pc = "aggregated"
  /\ handlers = HandlerNames
  /\ Len(outcomes) = 1
  /\ outcomes[1] = "processed"
  /\ extractedData[1].eventType = [category |-> "message", type |-> "voice"]
  /\ InvocationsOf(1, "onMessage") = 1
  /\ InvocationsOf(1, "onVoice") = 1
  /\ CallsFor(1) = 2

\* an event type without a row in the dispatch table
Unmatched(eventType) ==
  /\ TableHandlers(eventType) = {}
  /\ eventType # [category |-> "message", type |-> "text"]

\* C16 (as claimed): a processed event whose type matches no row of the
\* dispatch table, such as message:unknown, has had the registered onUnknown
\* handler invoked for it.
C16_UnmatchedGoesToOnUnknown ==
  \A i \in 1..Len(outcomes) :
    ( /\ outcomes[i] = "processed"
      /\ Unmatched(extractedData[i].eventType)
      /\ "onUnknown" \in handlers )
    => InvocationsOf(i, "onUnknown") >= 1

-----------------------------------------------------------------------------
(* The order of the queue *)

\* the place of an item among the enqueue calls of the callers
EnqueueRank(id) == CHOOSE n \in 1..enqueued : QueueId(n) = id

\* an item that was enqueued by a caller and not yet taken by the loop
Fresh(queued) == attemptsMade[queued.id] = 0

\* C17 (as claimed): the queue, which is dequeued from its head, holds the
\* items not yet attempted in this order: of two items with the same priority
\* (both zero, or both greater than zero) the one enqueued first is nearer the
\* head, and no item of priority 0 is ahead of an item of priority > 0.
C17_FifoAmongEqualPriority ==
  \A a, b \in 1..Len(queue) :
    (a < b /\ Fresh(queue[a]) /\ Fresh(queue[b])) =>
      /\ queue[a].priority = queue[b].priority =>
           EnqueueRank(queue[a].id) < EnqueueRank(queue[b].id)
      /\ ~(queue[a].priority = 0 /\ queue[b].priority > 0)

-----------------------------------------------------------------------------
(* The status of outgoing messages *)

-----------------------------------------------------------------------------
(* Event types *)

\* the order of precedence the event type is specified with
TypeOrder ==
  <<"text", "image", "video", "audio", "voice", "document", "sticker", "location",
    "contacts", "interactive", "reaction">>

\* the type named after a content field
TypeOf(field) == IF field = "contacts" THEN "contact" ELSE field

\* C19: the event type of an inbound message is message:<type of the first
\* field present> in the order text, image, video, audio, voice, document,
\* sticker, location, contacts, interactive, reaction, and message:unknown
\* when none of them is present, whatever else the message holds.
C19_EventTypeIsFirstPresentField ==
  verdict # NoVerdict =>
    LET present == {k \in 1..Len(TypeOrder) : TypeOrder[k] \in probe.fields}
    IN  /\ verdict.category = "message"
        /\ present = {} => verdict.type = "unknown"
        /\ \A k \in present :
             (\A j \in present : k <= j) => verdict.type = TypeOf(TypeOrder[k])

\* C19 witness: a message with an audio and a voice part, a location and an
\* unrecognised field is classified by its audio part.
C19_Witness ==
  /\ verdict = [category |-> "message", type |-> "audio"]
  /\ probe.fields = {"audio", "voice", "location", "button"}

-----------------------------------------------------------------------------
(* Request validation *)

\* C20: a processWebhook call returns the 400 VALIDATION_ERROR failure exactly
\* when the request has no method, or no headers, or is a POST with neither a
\* parsed body nor raw body bytes; no other request gets a validation error.
C20_ValidationErrorIff ==
  pc # "idle" =>
    ( ( /\ pc = "terminal"
        /\ result.status = 400
        /\ result.code = "VALIDATION_ERROR" )
      <=>
      ( \/ callRequest.method = NoValue
        \/ ~callRequest.hasHeaders
        \/ /\ callRequest.method = "POST"
           /\ callRequest.body = Absent
           /\ callRequest.rawBody = Absent ) )

\* C20 witness: a POST with headers but neither body nor raw body is refused
\* with the message of that one check.
C20_Witness ==
  /\ pc = "terminal"
  /\ callRequest.method = "POST"
  /\ callRequest.hasHeaders
  /\ callRequest.body = Absent
  /\ callRequest.rawBody = Absent
  /\ result.status = 400
  /\ result.code = "VALIDATION_ERROR"
  /\ result.message = "Missing request body for POST request"

-----------------------------------------------------------------------------
(* Malformed bodies *)

\* the signature check of handleWebhookEvents lets the request through
PassesSignature(request) ==
  SignatureChecked(cfg) =>
    verifySignature(cfg, SignedPayload(request), request.signature)

\* C21 (as claimed): a POST that passes validation and the signature check
\* and whose body is malformed - raw bytes that are no JSON, or a JSON value
\* that is no envelope - gets the terminal 400 failure with the invalid-body
\* code, and no event is processed.
C21_MalformedBodyIsInvalidBody ==
  ( /\ pc # "idle"
    /\ callRequest.method = "POST"
    /\ validateRequest(callRequest)
    /\ PassesSignature(callRequest)
    /\ IF BodyParses(callRequest) THEN ParsedBody(callRequest).kind # "envelope"
       ELSE TRUE )
  => /\ pc = "terminal"
     /\ result.status = 400
     /\ result.code = "INVALID_JSON"
     /\ outcomes = <<>>
     /\ calls = <<>>

-----------------------------------------------------------------------------
(* Merging conversation state *)

StateFields ==
  {"id", "state", "lastActivity", "messageCount", "displayName", "metadata",
   "currentStep", "context"}

\* C22: updateState(id, partial) on a conversation that exists leaves every
\* field the partial does not name as it was, sets the fields it names, and
\* sets lastActivity to the time of the call even when the partial gives one;
\* the new state has all the fields of the old.
C22_UpdateKeepsUnnamedFields ==
  \A k \in 1..Len(probe) :
    (probe[k].op = "updateState" /\ probe[k].before # EmptyRecord) =>
      /\ DOMAIN probe[k].after = StateFields
      /\ probe[k].after.lastActivity = probe[k].at
      /\ \A f \in StateFields \ {"lastActivity"} :
           probe[k].after[f] = (IF f \in DOMAIN probe[k].updates
                                THEN probe[k].updates[f]
                                ELSE probe[k].before[f])

\* C22 witness: a conversation renamed Ann and counted 7 gets an update that
\* names only state and lastActivity.
C22_Witness ==
  /\ Len(probe) = 2
  /\ probe[2].op = "updateState"
  /\ probe[2].before.displayName = "Ann"
  /\ probe[2].before.messageCount = 7
  /\ DOMAIN probe[2].updates = {"state", "lastActivity"}
  /\ verdict.displayName = "Ann"
  /\ verdict.messageCount = 7
  /\ verdict.state = "waiting"
  /\ verdict.lastActivity = probe[2].at

\* the states map that holds at most the one conversation of a logged call
MapBefore(call) ==
  IF call.before = EmptyRecord THEN NoStates
  ELSE [c \in {call.conversationId} |-> call.before]

WithoutLastActivity(state) == [f \in DOMAIN state \ {"lastActivity"} |-> state[f]]

\* the state of the conversation after `first` and then `second`, applied to
\* the state `first` found, by the operation both calls made
AppliedInOrder(first, second) ==
  LET c == first.conversationId
      st0 == MapBefore(first)
  IN  IF first.op = "updateState"
      THEN updateState(updateState(st0, c, first.updates, first.at),
                       c, second.updates, second.at)[c]
      ELSE updateContext(updateContext(st0, c, first.updates, first.at),
                         c, second.updates, second.at)[c]

C24_StoppedLoopDequeuesNothing ==
  stopped.resolved => TotalAttempts = stopped.attempts

AllDone == \A r \in 1..Len(requests) : requests[r].at = "done"

\* C25: once every processWebhook call running on the handler has returned,
\* each conversation's messageCount is the number of state updates the calls
\* applied to it, and every context key a call merged is still in its context.
C25_NoLostConversationUpdate ==
  AllDone =>
    \A c \in DOMAIN applied :
      /\ c \in DOMAIN states
      /\ states[c].messageCount = applied[c].updates
      /\ applied[c].keys \subseteq DOMAIN states[c].context

\* two calls that overlapped, each of two events, both merged their key into
\* the same conversation
C25_Witness ==
  /\ Len(requests) = 2
  /\ AllDone
  /\ requests[2].found = {1}
  /\ "555" \in DOMAIN applied
  /\ applied["555"].updates = 4
  /\ applied["555"].keys = {"r1", "r2"}

\* C26: a processWebhook call is never still in progress once the request
\* timeout has passed since it started, and a call that took the timeout or
\* longer has returned a failure instead of the aggregated result.
C26_OverdueCallReturnsTimeoutFailure ==
  \A r \in 1..Len(requests) :
    /\ requests[r].at # "done" => now - requests[r].startTime < RequestTimeout
    /\ requests[r].at = "done" /\ requests[r].processingTime >= RequestTimeout
         => ~requests[r].result.success /\ requests[r].result.status # 200

\* C28: under any interleaving of the callers of waitForSlot, the slots
\* granted less than windowMs ago never number more than maxRequests, and a
\* caller that is waiting is granted a slot in the end.
C28_AtMostRateGrantsAndNoCallerWaitsForever ==
  /\ [](Len(grants) <= limiter.maxRequests)
  /\ \A c \in 1..MaxCallers :
       (callers[c].at = "waiting") ~> (callers[c].at = "granted")

\* the half of C28 that bounds the grants of a window
SlotsWithinRate == Len(grants) <= limiter.maxRequests

RetryClass == {"429", "abort"}

\* C27: a _makeRequest call never makes more than maxRetries attempts; one that
\* throws after failing every attempt with a 429 or a timeout has made exactly
\* maxRetries attempts, and one whose first failure is another error has made one.
C27_RetriesExactlyMaxRetries ==
  probe # NoVerdict =>
    /\ Len(probe.seen) <= maxRetries
    /\ probe.at = "returned" /\ probe.seen[Len(probe.seen)] # "ok" =>
         /\ (\A i \in 1..Len(probe.seen) : probe.seen[i] \in RetryClass)
              => Len(probe.seen) = maxRetries
         /\ probe.seen[1] \notin RetryClass => Len(probe.seen) = 1

-----------------------------------------------------------------------------
(* Retries of the delivery loop *)

\* C29: the attempts field of an item, in the queue or in flight, is the
\* number of its deliveries that have failed so far, and an item in the queue
\* has failed fewer than maxRetries times.
C29_AttemptsCountsFailedDeliveries ==
  /\ \A k \in 1..Len(queue) :
       /\ queue[k].attempts = FailuresOf(queue[k].id)
       /\ FailuresOf(queue[k].id) > 0 => FailuresOf(queue[k].id) < maxRetries
  /\ isQueueProcessing => item.attempts = FailuresOf(item.id)

\* C30: a re-enqueue by the delivery loop that the queue accepts leaves every
\* item that was in the queue where it was and puts the failed item behind
\* them, whatever its priority.
C30_RetryGoesToTheBack ==
  (lastEnqueue # NoEnqueue /\ lastEnqueue.by = "loop" /\ lastEnqueue.returned) =>
    /\ Len(lastEnqueue.after) = Len(lastEnqueue.before) + 1
    /\ \A k \in 1..Len(lastEnqueue.before) :
         lastEnqueue.after[k] = lastEnqueue.before[k]

\* C31: an item whose delivery has failed, and which has not been delivered
\* since, is in the queue, in flight again, or reported by a
\* queuedMessageFailed notification: it is never dropped without a trace.
C31_FailedItemIsNeverLost ==
  \A id \in DOMAIN attemptsMade :
    (FailuresOf(id) >= 1 /\ delivered[id] = 0 /\ ~InFlight(id)) =>
      Queued(id) \/ FailureNotices(id) >= 1

-----------------------------------------------------------------------------
(* The life of a conversation *)

EventDriven == {"updateStateFromMessage", "updateContext", "setStep"}

\* C32: a call on an unseen id creates the conversation, as active unless the
\* call itself names a state; no call removes a conversation; and an update
\* from an event, a context merge or a step leaves the lifecycle state of an
\* existing conversation as the caller last set it.
C32_ConversationsOnlyGrow ==
  \A k \in 1..Len(probe) :
    LET call == probe[k]
    IN  /\ call.known \subseteq call.knownAfter
        /\ call.conversationId \in call.knownAfter
        /\ k > 1 => call.known = probe[k - 1].knownAfter
        /\ k = Len(probe) => call.knownAfter = DOMAIN states
        /\ (call.conversationId \notin call.known /\ "state" \notin DOMAIN call.updates)
             => call.after.state = "active"
        /\ (call.conversationId \in call.known /\ call.op \in EventDriven)
             => call.after.state = call.before.state

\* an inbound event reached a conversation the caller had set to waiting: the
\* conversation is still there and still waiting
C32_Witness ==
  /\ Len(probe) = 2
  /\ probe[1].op = "updateState"
  /\ probe[1].after.state = "waiting"
  /\ probe[2].op = "updateStateFromMessage"
  /\ probe[2].conversationId = "555"
  /\ DOMAIN states = {"555"}
  /\ states["555"].state = "waiting"

-----------------------------------------------------------------------------
(* The order of the events of one request *)

Over == {"processed", "error"}

\* the events of a call that were pushed to processedEvents, as its log has them
ProcessedInLog(req) ==
  LET pushed == SelectSeq(req.log, LAMBDA e : e.step = "processed")
  IN  [j \in 1..Len(pushed) |-> req.events[pushed[j].event]]

\* C33: in every processWebhook call the steps of the events follow the
\* envelope: no step of an event comes after a step of a later event, nothing
\* of an event is begun before the event ahead of it is over, handlers
\* included, and processedEvents holds the processed events in envelope order.
C33_EventsInEnvelopeOrder ==
  \A r \in 1..Len(requests) :
    LET req == requests[r]
    IN  /\ \A p, q \in 1..Len(req.log) :
             p < q =>
               /\ req.log[p].event <= req.log[q].event
               /\ req.log[p].step \in Over => req.log[p].event < req.log[q].event
               /\ req.log[p].event < req.log[q].event =>
                    \E m \in p..(q - 1) :
                      req.log[m].step \in Over /\ req.log[m].event = req.log[p].event
        /\ req.processedEvents = ProcessedInLog(req)

\* a call of two events has returned, both processed after handlers were
\* awaited, while another call was running
C33_Witness ==
  \E r \in 1..Len(requests) :
    /\ requests[r].at = "done"
    /\ Len(requests[r].events) = 2
    /\ Len(requests[r].processedEvents) = 2
    /\ \E p \in 1..Len(requests[r].log) :
         requests[r].log[p] = [event |-> 1, step |-> "handlers"]
    /\ \E p \in 1..Len(requests[r].log) :
         requests[r].log[p] = [event |-> 2, step |-> "handlers"]
    /\ \E q \in 1..Len(requests) : q # r /\ requests[q].at \notin {"done", "start"}

-----------------------------------------------------------------------------
(* A mark-read request that fails *)

\* the step is an iteration of the loop in which markAsRead was called and
\* rejected: an outcome is added and the failed counter goes up
MarkReadFailedInStep ==
  /\ Len(outcomes') = Len(outcomes) + 1
  /\ messageStatistics'.failed = messageStatistics.failed + 1

\* C34: with auto-mark-read on, an event whose mark-read request fails is not
\* an error for that: its handlers are invoked all the same, and it is pushed
\* to processedEvents unless one of its handlers threw.
C34_MarkReadFailureIsNotAnEventError ==
  [][MarkReadFailedInStep =>
       LET i == Len(outcomes')
           planned == PlannedInvocations(handlers, extractedData[i])
           made == {k \in 1..Len(calls') : calls'[k].event = i}
       IN  /\ planned # <<>> => made # {}
           /\ outcomes'[i] = "error" => \E k \in made : calls'[k].threw
           /\ outcomes'[i] = "processed" =>
                /\ Cardinality(made) = Len(planned)
                /\ processedEvents' = Append(processedEvents, extractedData[i])
                /\ errors' = errors]_vars

\* the first event of the first request was a message to mark read, the
\* request failed, and the event was handed to its handlers and processed
C34_Witness ==
  /\ cfg.autoMarkRead
  /\ Len(outcomes) >= 1
  /\ MarksRead(cfg, extractedData[1])
  /\ messageStatistics.failed = 1
  /\ messageStatistics.read = 0
  /\ outcomes[1] = "processed"
  /\ \E k \in 1..Len(calls) : calls[k].event = 1
  /\ Len(processedEvents) >= 1 /\ processedEvents[1] = extractedData[1]

-----------------------------------------------------------------------------
(* The payload that was verified and the payload that is processed *)

\* the events of the payload the signature was computed over
SignedEvents(request) ==
  LET signed == SignedPayload(request)
  IN  IF signed.kind = "json" /\ signed.value.kind = "envelope"
      THEN extractMessageData(signed.value.entry)
      ELSE <<>>

\* C35: when the signature check is made and passes, the events that are
\* extracted and dispatched are those of the payload that was signed: a request
\* whose parsed body differs from its raw bytes does not have the parsed body's
\* events processed on the signature of the raw bytes.
C35_ProcessedEventsAreTheSignedOnes ==
  (pc \in {"processing", "aggregated"} /\ SignatureChecked(cfg)) =>
    extractedData = SignedEvents(callRequest)

-----------------------------------------------------------------------------
(* The verification handshake of a handler that was given no verify token *)

\* the configuration named no verify token: webhookConfig.verifyToken is the
\* constructor's fallback
NoTokenConfigured == cfg.verifyToken = DefaultVerifyToken

\* C36: the handshake succeeds only for a token equal to a verify token the
\* operator configured; with none configured no GET request is accepted,
\* whatever token it carries or omits.
C36_HandshakeNeedsConfiguredToken ==
  (callRequest.method = "GET" /\ result.success) =>
    /\ ~NoTokenConfigured
    /\ callRequest.token = cfg.verifyToken

-----------------------------------------------------------------------------
(* WhatsAppHandler with webhook support (part_000): handleWebhook, which
   queues one task per message, status or update, and processWebhookQueue,
   which runs the queued tasks.  A handleWebhook call runs synchronously up to
   its first await, which is after its first change was handled; an
   activation of processWebhookQueue runs from one await to the next.  A task
   is the invocation of one user handler. *)

MaxHooks == 2

TaskHandlerChoices ==
  { {"onMessage", "onMessageStatus", "onAccountUpdate", "onUnknown", "onError"},
    {"onMessage", "onMessageStatus", "onAccountUpdate", "onUnknown"} }

\* a WebhookMessage: its object and the changes of its entries, in the order
\* the two nested loops of handleWebhook visit them; items is the number of
\* messages or statuses in the value of a change
HookBodies ==
  { [object |-> "whatsapp_business_account",
     changes |-> <<[field |-> "messages", items |-> 2]>>],
    [object |-> "whatsapp_business_account",
     changes |-> <<[field |-> "message_status", items |-> 1],
                   [field |-> "account_update", items |-> 1],
                   [field |-> "security", items |-> 1]>>],
    [object |-> "page", changes |-> <<[field |-> "messages", items |-> 1]>>] }

\* the signature headers a call comes with: none, the provider's, and for the
\* body of messages also one of another length and one made with another key
HookSignatures(body) ==
  {Absent, Hmac(Secret, JSONstringify(body))}
  \cup (IF body.object = "whatsapp_business_account" /\ Len(body.changes) = 1
        THEN {Malformed, Hmac("guessed", JSONstringify(body))}
        ELSE {})

\* verifyWebhookSignature: throws without an app secret and on a signature of
\* another length (crypto.timingSafeEqual), else returns the comparison
verifyWebhookSignature(secret, payload, signature) ==
  IF ~Truthy(secret) THEN [threw |-> TRUE, returned |-> FALSE]
  ELSE timingSafeEqual(signature, Hmac(secret, payload))

\* handleWebhook up to the loops: "rejected" when the signature check throws
\* or fails, "returned" for another object type, "changes" when the changes
\* are gone through; the check is made only with a secret and a signature
HookEntry(secret, body, signature) ==
  IF Truthy(secret) /\ signature # Absent
     /\ LET checked == verifyWebhookSignature(secret, JSONstringify(body), signature)
        IN  checked.threw \/ ~checked.returned
  THEN "rejected"
  ELSE IF body.object # "whatsapp_business_account" THEN "returned"
  ELSE "changes"

\* the handler a change is for
HandlerOf(field) ==
  CASE field = "messages" -> "onMessage"
    [] field = "message_status" -> "onMessageStatus"
    [] field = "account_update" -> "onAccountUpdate"
    [] field = "phone_number_name_update" -> "onPhoneChange"
    [] OTHER -> "onUnknown"

\* processWebhookChange: the tasks queued for a change, none when the handler
\* is not set; n is the number of tasks queued before
TasksOf(given, change, call, n) ==
  IF HandlerOf(change.field) \notin given THEN <<>>
  ELSE [k \in 1..(IF change.field \in {"messages", "message_status"}
                  THEN change.items ELSE 1) |->
          [id |-> n + k, handler |-> HandlerOf(change.field), call |-> call]]

\* an activation of processWebhookQueue that goes on whatever the flag says
StartsLoopAnyway(flag, q) == q # <<>>

\* processWebhookQueue goes past its first statement
StartsLoop(flag, q) == ~flag /\ q # <<>>

\* the state of the task queue: the three fields and the tasks started
TaskState == [webhookQueue |-> webhookQueue, isProcessingQueue |-> isProcessingQueue,
              loops |-> loops, started |-> started]

\* processWebhookQueue up to its first await: the flag is set, the first task
\* is shifted and called
processWebhookQueue(st) ==
  IF ~StartsLoop(st.isProcessingQueue, st.webhookQueue) THEN st
  ELSE [webhookQueue |-> Tail(st.webhookQueue),
        isProcessingQueue |-> TRUE,
        loops |-> st.loops \cup {[task |-> Head(st.webhookQueue), at |-> "task"]},
        started |-> Append(st.started, Head(st.webhookQueue))]

queueWebhookTask(st, task) ==
  processWebhookQueue([st EXCEPT !.webhookQueue = Append(@, task)])

RECURSIVE QueueAll(_, _)
QueueAll(st, tasks) ==
  IF tasks = <<>> THEN st
  ELSE QueueAll(queueWebhookTask(st, Head(tasks)), Tail(tasks))

Becomes(st) ==
  /\ webhookQueue' = st.webhookQueue
  /\ isProcessingQueue' = st.isProcessingQueue
  /\ loops' = st.loops
  /\ started' = st.started

TasksQueued == Len(started) + Len(webhookQueue)

\* the change at position i of call c is handled: its tasks are queued
HandleChange(c, body, i) ==
  Becomes(QueueAll(TaskState, TasksOf(webhookHandlers, body.changes[i], c, TasksQueued)))

OtherVars ==
  <<extractVars, webhookVars, queueVars, sendVars, probeVars, concurrentVars, limiterVars>>

\* handleWebhook(body, signature) is called and runs to its first await
HandleWebhook ==
  /\ Len(hooks) < MaxHooks
  /\ \E body \in HookBodies : \E signature \in HookSignatures(body) :
       LET at == HookEntry(appSecret, body, signature)
           c == Len(hooks) + 1
       IN  /\ hooks' = Append(hooks, [body |-> body, signature |-> signature,
                                      at |-> IF at = "changes" /\ Len(body.changes) = 1
                                             THEN "returned" ELSE at,
                                      next |-> 2])
           /\ IF at = "changes" THEN HandleChange(c, body, 1)
              ELSE UNCHANGED <<webhookQueue, isProcessingQueue, loops, started>>
  /\ UNCHANGED <<appSecret, webhookHandlers, OtherVars>>

\* the await of processWebhookChange is over: the next change is handled
NextChange(c) ==
  /\ c \in 1..Len(hooks)
  /\ hooks[c].at = "changes"
  /\ HandleChange(c, hooks[c].body, hooks[c].next)
  /\ hooks' = [hooks EXCEPT ![c].next = @ + 1,
                            ![c].at = IF hooks[c].next = Len(hooks[c].body.changes)
                                      THEN "returned" ELSE @]
  /\ UNCHANGED <<appSecret, webhookHandlers, OtherVars>>

\* the while loop after a task: the next task is shifted and called, or the
\* flag is cleared and the activation is over
Continue(l) ==
  IF webhookQueue # <<>>
  THEN /\ webhookQueue' = Tail(webhookQueue)
       /\ loops' = (loops \ {l}) \cup {[task |-> Head(webhookQueue), at |-> "task"]}
       /\ started' = Append(started, Head(webhookQueue))
       /\ UNCHANGED isProcessingQueue
  ELSE /\ loops' = loops \ {l}
       /\ isProcessingQueue' = FALSE
       /\ UNCHANGED <<webhookQueue, started>>

\* the task an activation awaits settles; a rejection is handed to onError
TaskSettles(l) ==
  /\ l \in loops
  /\ l.at = "task"
  /\ \E threw \in BOOLEAN :
       IF threw /\ "onError" \in webhookHandlers
       THEN /\ loops' = (loops \ {l}) \cup {[l EXCEPT !.at = "onError"]}
            /\ UNCHANGED <<webhookQueue, isProcessingQueue, started>>
       ELSE Continue(l)
  /\ UNCHANGED <<appSecret, webhookHandlers, hooks, OtherVars>>

\* the onError handler an activation awaits settles; its rejection is the
\* rejection of processWebhookQueue, which ends there
OnErrorSettles(l) ==
  /\ l \in loops
  /\ l.at = "onError"
  /\ \E threw \in BOOLEAN :
       IF threw
       THEN /\ loops' = loops \ {l}
            /\ UNCHANGED <<webhookQueue, isProcessingQueue, started>>
       ELSE Continue(l)
  /\ UNCHANGED <<appSecret, webhookHandlers, hooks, OtherVars>>

TasksInit ==
  /\ Constructed(DefaultConfig)
  /\ QueueConstructed(DefaultQueueConfig)
  /\ NoSends
  /\ LimiterConstructed(0)
  /\ ExtractorOff
  /\ \E secret \in {NoValue, Secret} : \E given \in TaskHandlerChoices :
       TasksConstructed(secret, given)

TasksNext ==
  \/ HandleWebhook
  \/ \E c \in 1..Len(hooks) : NextChange(c)
  \/ \E l \in loops : TaskSettles(l)
  \/ \E l \in loops : OnErrorSettles(l)

SpecTasks == TasksInit /\ [][TasksNext]_vars

\* a handler that was invoked settles, a change that is awaited is over
TasksFairness ==
  /\ \A c \in 1..MaxHooks : WF_vars(NextChange(c))
  /\ WF_vars(\E l \in loops : TaskSettles(l))
  /\ WF_vars(\E l \in loops : OnErrorSettles(l))

SpecTasksFair == SpecTasks /\ TasksFairness

\* the signature the provider computes for the body of a call
GenuineSignature(hook) == Hmac(appSecret, JSONstringify(hook.body))

\* C37: with an app secret configured, user handlers are dispatched only for
\* requests that carry a signature valid for the body: no task is queued or
\* started for a call whose signature is missing or invalid.
C37_DispatchNeedsValidSignature ==
  Truthy(appSecret) =>
    /\ \A i \in 1..Len(started) :
         hooks[started[i].call].signature = GenuineSignature(hooks[started[i].call])
    /\ \A i \in 1..Len(webhookQueue) :
         hooks[webhookQueue[i].call].signature = GenuineSignature(hooks[webhookQueue[i].call])

\* the ids of the tasks the calls can queue
TaskIds == 1..(3 * MaxHooks)

\* C38: every task queued by queueWebhookTask is eventually executed, whatever
\* earlier tasks do, also after a task throws and after onError itself throws.
C38_EveryQueuedTaskIsExecuted ==
  \A n \in TaskIds : (TasksQueued >= n) ~> (Len(started) >= n)

\* C39: under any interleaving of handleWebhook calls at most one queued task
\* is executing at any time, and the tasks start in the order they were queued.
C39_OneTaskAtATimeInQueueOrder ==
  /\ Cardinality(loops) <= 1
  /\ \A i \in 1..Len(started) : started[i].id = i
  /\ \A i \in 1..Len(webhookQueue) : webhookQueue[i].id = Len(started) + i

\* tasks of two calls were started, the second call having queued its tasks
\* while a task of the first was executing, and tasks are still waiting
C39_Witness ==
  /\ Len(started) >= 3
  /\ \E i, j \in 1..Len(started) : started[i].call # started[j].call
  /\ webhookQueue # <<>>
  /\ \E l \in loops : l.at = "task" /\ l.task.call = 2
  /\ hooks[1].at = "changes"

-----------------------------------------------------------------------------
(* The delivery loop with listeners that may throw.  emit calls the listeners
   of an event synchronously and lets their exceptions through; listeners are
   registered by the handler's users through on(). *)

\* processQueue after the await, _makeRequest having thrown for the last
\* attempt allowed, and a listener of queuedMessageFailed throwing: the
\* exception leaves the catch block and processQueue, before
\* isQueueProcessing = false and before setTimeout
QueueFailedListenerThrows ==
  /\ isQueueProcessing
  /\ item.attempts + 1 >= maxRetries
  /\ emitted' = Append(emitted, [name |-> "queuedMessageFailed", id |-> item.id])
  /\ messageStatistics' = [messageStatistics EXCEPT !.failed = @ + 1]
  /\ item' = NoItem
  /\ UNCHANGED <<queue, maxSize, maxRetries, isQueueProcessing, lastEnqueue, enqueued,
                 attemptsMade, delivered, webhookServer, stopped,
                 sendVars, cfgVars, states, messages, conversationIndex, now,
                 callVars, histVars, extractVars, probeVars, concurrentVars,
                 limiterVars, taskVars>>

\* the request of the dequeued item settles
Settles ==
  /\ item # NoItem
  /\ \/ QueueDelivered
     \/ QueueFailed
     \/ QueueFailedListenerThrows

DeliveryNext ==
  \/ Enqueue
  \/ QueueDequeue
  \/ Settles

\* the timer set by setTimeout(processQueue, ...) fires, and a request settles
\* (it is aborted after apiTimeout)
DeliveryFairness ==
  /\ WF_vars(QueueDequeue)
  /\ WF_vars(Settles)

SpecDelivery == QueueInit /\ [][DeliveryNext]_vars /\ DeliveryFairness

\* C40: at most one delivery attempt is in flight at any time, an item being
\* dequeued only after the attempt before it was accounted for
\* (isQueueProcessing is true exactly while an attempt is in flight), and the
\* loop always reschedules itself: a queued item is eventually dequeued (as
\* long as the attempts the model allows are not used up).
C40_OneAttemptInFlightAndQueueServiced ==
  /\ [](isQueueProcessing <=> item # NoItem)
  /\ \A n \in 1..MaxEnqueues :
       Queued(QueueId(n)) ~> (~Queued(QueueId(n)) \/ TotalAttempts >= MaxAttempts)

====
